---- MODULE Spec2Model ----
(***************************************************************************)
(* A model of the folder-upload relay: the two webhook forwarders          *)
(* (forwardToN8nMultipart, forwardToN8n), the two in-memory rate limiters  *)
(* (lib/folder-upload/rate-limit.ts, lib/security.ts), the path            *)
(* normalizers and the two upload endpoints that compose them.             *)
(***************************************************************************)
EXTENDS Integers, Sequences, FiniteSets, TLC

None == [none |-> TRUE]

(***************************************************************************)
(* Bounds of the model.                                                    *)
(***************************************************************************)
\* largest configured number of retries drawn for a forward call
MaxRetries == 2

\* the clock of the rate limiters runs from 0 to MaxNow (ms)
MaxNow == 5

\* largest configured rate-limit window (ms) and request limit
MaxWindow == 2

MaxLimit == 2

(***************************************************************************)
(* What one outbound attempt can end in.  A response has the status and    *)
(* the text (status text and body) the downstream webhook chose; an error  *)
(* is whatever the try block of the attempt throws: fetch rejecting or the *)
(* read of the body rejecting, both caught by the same catch.  AbortError  *)
(* is what fetch rejects with when the attempt's timeout timer fires and   *)
(* calls controller.abort().                                               *)
(***************************************************************************)
Statuses == {200, 204, 302, 400, 404, 500, 503}

ResponseTexts == {"body", "ECONNRESET"}

Responses == [type : {"response"}, status : Statuses, name : {""}, text : ResponseTexts]

Errors ==
  { [type |-> "error", status |-> 0, name |-> "FetchError", text |-> "request failed"],
    [type |-> "error", status |-> 0, name |-> "Error", text |-> "read ECONNRESET"],
    [type |-> "error", status |-> 0, name |-> "TypeError", text |-> "fetch failed"],
    [type |-> "error", status |-> 0, name |-> "AbortError", text |-> "This operation was aborted"] }

Outcomes == Responses \cup Errors

\* String.prototype.includes('ECONNRESET') on the texts of the model
includesECONNRESET(text) == text \in {"ECONNRESET", "read ECONNRESET"}

VARIABLES
  \* ---- forward call ---------------------------------------------------
  callee,      \* "none" | "multipart" (forwardToN8nMultipart) | "n8n" (forwardToN8n)
  retries,     \* n8n.retries / n8nConfig.retryAttempts
  fpc,         \* "idle" | "loop" (loop test) | "fetch" (awaiting fetch) | "backoff" | "done"
               \* | "body" (awaiting the read of a response body)
  attempt,     \* the loop variable
  requests,    \* number of fetch calls issued by this forward call
  last,        \* forwardToN8nMultipart's `last`
  lastStatus,  \* forwardToN8n's lastStatus
  lastError,   \* forwardToN8n's lastError (None for null)
  history,     \* the outcomes of the attempts made, in order
  delays,      \* the backoff delays waited, in order (ms)
  result,      \* None, or what the call returned or threw
  timers,      \* the attempts whose timeout timer is armed
  headers,     \* the names of the headers passed with every fetch of the call
  headerValues, \* the values of x-file-total-count and x-file-total-bytes
  accepted,    \* the downstream webhook took in the batch in some attempt
  \* ---- rate limiters --------------------------------------------------
  now,          \* Date.now()
  limiter,      \* the module whose limiter is exercised: "rate-limit" | "security"
  ipStore,      \* rate-limit.ts: Map ip -> {count, resetAt} (None: no entry)
  rateLimitMap, \* security.ts:   Map ip -> {count, resetAt} (None: no entry)
  maxRequests,  \* rateLimitConfig.maxRequests / RATE_LIMIT_MAX
  windowMs,     \* rateLimitConfig.windowMs / RATE_LIMIT_WINDOW
  rlEnabled,    \* rateLimitConfig.enabled (rate-limit.ts only)
  lastCheck,    \* observation of the latest check: None, or its key, time, result
  opened,       \* observation: per key, when its current window was opened (-1: never)
  made,         \* observation: per key, checks made since that window was opened
  \* ---- upload endpoints ----------------------------------------------
  ep,           \* the deployed POST handler: "route" (route.ts) | "upload" (the
                \* handler with validateConfig, auth and checkRateLimit)
  epc,          \* its position: "idle" | "validate" | "forwarding" | "responded"
  configured,   \* N8N_WEBHOOK_URL and N8N_HOOK_SECRET are both set
  authEnabled,  \* authConfig.enabled
  maxFileCount, \* uploadConfig.maxFileCount
  nfiles,       \* number of files[] parts of the inbound body
  out,          \* the files appended to the outbound FormData: [filename, size]
  totalBytes,   \* totalBytes / totalSize
  count,        \* files[] parts examined so far
  response,     \* None, or the response the handler returned
  sawDotDot,    \* observation: an examined inbound name had a ".." segment
  inbound,      \* observation: the files[] parts examined so far: [name, size]
  clientAborted, \* the browser aborted the inbound request (fetch's signal)
  overLimit,    \* observation: the limiter's verdict on the request was a denial
  parsed,       \* observation: req.formData() was called
  threw,        \* observation: the step at which an unexpected exception was
                \* thrown: "none" | "rate-limit" | "config" | "parse"
  \* ---- path normalizers ----------------------------------------------
  inputPath,    \* the string handed to a normalizer
  applied,      \* the normalizer called on it and what the call did
  \* ---- batch validators ----------------------------------------------
  files,        \* the batch handed to a validator: [relativePath, size, type]
  validation,   \* the validator called on it and the result it returned
  \* ---- the limiter beside a run without sweeps ------------------------
  unswept,      \* the map of a run given the same checks and never swept
  lastUnswept,  \* None, or the answer that run gave to the last check
  info,         \* None, or what the last getRateLimitInfo(ip) returned
  \* ---- error responses -----------------------------------------------
  nodeEnv,      \* process.env.NODE_ENV
  failedAt,     \* None, or the handler and the step at which it failed
  caught,       \* the exceptions two requests failing at that step threw
  errorBody     \* the bodies of the error responses the two requests got

fvars == <<callee, retries, fpc, attempt, requests, last, lastStatus, lastError,
           history, delays, result, headers, headerValues,
           accepted, timers>>

lvars == <<now, limiter, ipStore, rateLimitMap, maxRequests, windowMs, rlEnabled,
           lastCheck, opened, made>>

evars == <<ep, epc, configured, authEnabled, maxFileCount, nfiles, out, totalBytes,
           count, response, sawDotDot, inbound, clientAborted, overLimit, parsed, threw>>

pvars == <<inputPath, applied>>

vvars == <<files, validation>>

xvars == <<nodeEnv, failedAt, caught, errorBody>>

svars == <<unswept, lastUnswept, info>>

vars == <<fvars, lvars, evars, pvars, vvars, xvars, svars>>

\* what a step of a forward call, and a step of a limiter, leave alone
notForward == <<lvars, evars, pvars, vvars, xvars, svars>>

notLimiter == <<fvars, evars, pvars, vvars, xvars, svars>>

(***************************************************************************)
(* Response.ok of fetch: the status is in 200..299.                        *)
(***************************************************************************)
ResOk_Only200(status) == status = 200

ResOk(status) == status >= 200 /\ status <= 299

(***************************************************************************)
(* forwardToN8nMultipart (lib/folder-upload/n8n-forwarder.ts)              *)
(***************************************************************************)
InitialLast == [status |-> 0, ok |-> FALSE, bodyText |-> "", retries |-> 0]

\* what the attempt left at the downstream webhook: a 2xx response says the
\* batch was taken in, any other response that it was not; when the try block
\* throws (the timeout's abort, a connection error, the read of the body of a
\* response already received) the sender cannot tell
Downstream(o) ==
  \E took \in (IF o.type = "response" THEN {ResOk(o.status)} ELSE BOOLEAN) :
     accepted' = (accepted \/ took)

\* backoff(i): the delay forwardToN8nMultipart waits after attempt i
backoff_Flat(i) == 500

backoff(i) == IF i = 0 THEN 500 ELSE 1500

\* the try/catch of one iteration, from the moment the awaited fetch settles
MultipartAttemptEnds(o) ==
  /\ callee = "multipart"
  /\ fpc = "fetch"
  /\ history' = Append(history, o)
  /\ IF o.type = "response"
       THEN LET l == [status |-> o.status, ok |-> ResOk(o.status),
                      bodyText |-> o.text, retries |-> attempt]
            IN /\ last' = l
               /\ IF l.ok
                    THEN /\ fpc' = "done"
                         /\ result' = [how |-> "return"] @@ l
                         /\ UNCHANGED delays
                    ELSE IF o.status >= 500
                      THEN /\ fpc' = "backoff"
                           /\ delays' = Append(delays, backoff(attempt))
                           /\ UNCHANGED result
                      ELSE /\ fpc' = "done"
                           /\ result' = [how |-> "return"] @@ l
                           /\ UNCHANGED delays
       ELSE /\ last' = [status |-> 0, ok |-> FALSE, bodyText |-> o.text, retries |-> attempt]
            /\ fpc' = "backoff"
            /\ delays' = Append(delays, backoff(attempt))
            /\ UNCHANGED result
  /\ Downstream(o)
  /\ UNCHANGED <<callee, retries, attempt, requests, lastStatus, lastError>>
  /\ UNCHANGED <<headers, headerValues>>
  /\ UNCHANGED notForward

\* the loop test `attempt <= retries`: issue the next fetch, or leave the loop
MultipartLoop ==
  /\ callee = "multipart"
  /\ fpc = "loop"
  /\ IF attempt <= retries
       THEN /\ requests' = requests + 1
            /\ fpc' = "fetch"
            /\ timers' = timers \cup {attempt}
            /\ UNCHANGED result
       ELSE /\ fpc' = "done"
            /\ result' = [how |-> "return"] @@ last
            /\ UNCHANGED <<requests, timers>>
  /\ UNCHANGED <<callee, retries, attempt, last, lastStatus, lastError, history, delays>>
  /\ UNCHANGED <<headers, headerValues, accepted>>
  /\ UNCHANGED notForward

(***************************************************************************)
(* forwardToN8n (the second forwarder, with N8nError)                      *)
(***************************************************************************)
\* the default of N8N_RETRY_BACKOFF
retryBackoff == <<500, 1500>>

Min(a, b) == IF a <= b THEN a ELSE b

shouldRetry(status, error) ==
  \/ status >= 500 /\ status < 600
  \/ error # None /\ (error.name = "FetchError" \/ includesECONNRESET(error.text))

N8nError(status, n) == [how |-> "throw", status |-> status, ok |-> FALSE, retries |-> n]

\* "Wait before retry (except on last attempt)", then the loop's attempt++
N8nAfterFailure ==
  IF attempt < retries
    THEN /\ fpc' = "backoff"
         /\ delays' = Append(delays, retryBackoff[Min(attempt, Len(retryBackoff) - 1) + 1])
         /\ UNCHANGED attempt
    ELSE /\ fpc' = "loop"
         /\ attempt' = attempt + 1
         /\ UNCHANGED delays

\* the catch block, entered with the error e thrown inside the try
N8nCatch(e) ==
  /\ lastError' = e
  /\ lastStatus' = 0
  /\ IF ~shouldRetry(0, e)
       THEN /\ fpc' = "done"
            /\ result' = N8nError(0, attempt)
            /\ UNCHANGED <<attempt, delays>>
       ELSE /\ N8nAfterFailure
            /\ UNCHANGED result

N8nAttemptEnds(o) ==
  /\ callee = "n8n"
  /\ fpc = "fetch"
  /\ history' = Append(history, o)
  /\ IF o.type = "response"
       THEN IF ResOk(o.status)
              THEN /\ lastStatus' = o.status
                   /\ fpc' = "done"
                   /\ result' = [how |-> "return", status |-> o.status, ok |-> TRUE,
                                 retries |-> attempt]
                   /\ UNCHANGED <<attempt, delays, lastError>>
              ELSE IF ~shouldRetry(o.status, None)
                \* the N8nError of the 4xx branch is thrown inside the try,
                \* so the catch below it receives it
                THEN N8nCatch([name |-> "N8nError", text |-> o.text])
                ELSE /\ lastStatus' = o.status
                     /\ lastError' = [name |-> "Error", text |-> "HTTP"]
                     /\ N8nAfterFailure
                     /\ UNCHANGED result
       ELSE N8nCatch([name |-> o.name, text |-> o.text])
  /\ Downstream(o)
  /\ UNCHANGED <<callee, retries, requests, last>>
  /\ UNCHANGED <<headers, headerValues>>
  /\ UNCHANGED notForward

N8nLoop ==
  /\ callee = "n8n"
  /\ fpc = "loop"
  /\ IF attempt <= retries
       THEN /\ requests' = requests + 1
            /\ fpc' = "fetch"
            /\ timers' = timers \cup {attempt}
            /\ UNCHANGED result
       ELSE /\ fpc' = "done"
            /\ result' = N8nError(lastStatus, retries)
            /\ UNCHANGED <<requests, timers>>
  /\ UNCHANGED <<callee, retries, attempt, last, lastStatus, lastError, history, delays>>
  /\ UNCHANGED <<headers, headerValues, accepted>>
  /\ UNCHANGED notForward

\* an attempt ends as its fetch settles.  forwardToN8nMultipart calls
\* clearTimeout(t) after the fetch and in its catch; forwardToN8n calls
\* clearTimeout(timeoutId) after the fetch only, so the timer of an attempt
\* whose fetch rejected stays armed unless it is the timer that fired
MultipartSettle(o) ==
  /\ MultipartAttemptEnds(o)
  /\ timers' = timers \ {attempt}

N8nSettle(o) ==
  /\ N8nAttemptEnds(o)
  /\ timers' = IF o.type = "response" \/ o.name = "AbortError"
                 THEN timers \ {attempt} ELSE timers

(***************************************************************************)
(* Steps common to both forwarders.                                        *)
(***************************************************************************)
\* the backoff timer fires: `continue` / end of the loop body, attempt++
BackoffElapsed ==
  /\ fpc = "backoff"
  /\ fpc' = "loop"
  /\ attempt' = attempt + 1
  /\ UNCHANGED <<callee, retries, requests, last, lastStatus, lastError, history,
                 delays, result>>
  /\ UNCHANGED <<headers, headerValues, accepted, timers>>
  /\ UNCHANGED notForward

\* the header object each forwarder builds before its loop; batchId and
\* metaJson tell whether forwardToN8nMultipart's optional arguments are truthy
MultipartHeaders(batchId, metaJson) ==
  {"x-hook-secret", "x-client-id", "x-file-total-count", "x-file-total-bytes"}
    \cup (IF batchId THEN {"x-batch-id"} ELSE {})
    \cup (IF metaJson THEN {"x-meta-sha256"} ELSE {})

N8nHeaders ==
  {"x-hook-secret", "x-client-id", "x-file-total-count", "x-file-total-bytes",
   "x-batch-id", "x-meta-sha256", "content-type"}

\* 'x-file-total-count': String(fileCount), 'x-file-total-bytes': String(totalBytes)
HeaderValues(fileCount, totalSize) == [count |-> fileCount, bytes |-> totalSize]

\* the code before the loop of either forwarder
BeginForward(f, batchId, metaJson, fileCount, totalSize) ==
  /\ callee' = f
  /\ headers' = IF f = "multipart" THEN MultipartHeaders(batchId, metaJson) ELSE N8nHeaders
  /\ headerValues' = HeaderValues(fileCount, totalSize)
  /\ accepted' = FALSE
  /\ fpc' = "loop"
  /\ attempt' = 0
  /\ requests' = 0
  /\ last' = InitialLast
  /\ lastStatus' = 0
  /\ lastError' = None
  /\ history' = <<>>
  /\ delays' = <<>>
  /\ result' = None
  /\ timers' = {}
  /\ UNCHANGED retries

Call(f) ==
  /\ fpc = "idle"
  /\ \E batchId \in BOOLEAN, metaJson \in BOOLEAN :
       BeginForward(f, batchId, metaJson, Len(out), totalBytes)
  /\ UNCHANGED notForward

Settle(o) == MultipartSettle(o) \/ N8nSettle(o)

ForwardStep ==
  \/ MultipartLoop
  \/ N8nLoop
  \/ \E o \in Outcomes : Settle(o)
  \/ BackoffElapsed

ForwardIdle ==
  /\ callee = "none"
  /\ fpc = "idle"
  /\ attempt = 0
  /\ requests = 0
  /\ last = InitialLast
  /\ lastStatus = 0
  /\ lastError = None
  /\ history = <<>>
  /\ delays = <<>>
  /\ result = None
  /\ headers = {}
  /\ headerValues = HeaderValues(0, 0)
  /\ accepted = FALSE
  /\ timers = {}

(***************************************************************************)
(* The timeout timers.  Each iteration makes its own AbortController and   *)
(* its own timer `setTimeout(() => controller.abort(), timeoutMs)`, and    *)
(* gives the controller's signal to its fetch.                             *)
(***************************************************************************)
\* the controller the timer of attempt n aborts, and whose signal the fetch
\* of attempt n is given
controller_Shared(n) == 0

controller(n) == n

\* what fetch rejects with when its signal is aborted
AbortError ==
  [type |-> "error", status |-> 0, name |-> "AbortError", text |-> "This operation was aborted"]

\* the timer of attempt n fires and aborts its controller: the fetch that was
\* given that controller's signal rejects if it is still pending
TimerFires(n) ==
  /\ n \in timers
  /\ timers' = timers \ {n}
  /\ IF fpc = "fetch" /\ controller(attempt) = controller(n)
       THEN MultipartAttemptEnds(AbortError) \/ N8nAttemptEnds(AbortError)
       ELSE /\ UNCHANGED <<callee, retries, fpc, attempt, requests, last, lastStatus,
                           lastError, history, delays, result, headers, headerValues,
                           accepted>>
            /\ UNCHANGED notForward

\* the fetch resolves with a response whose body the downstream never ends:
\* the timer is cleared, and `await res.text()` / `await response.json()` /
\* `await response.text()` stays pending (forwardToN8n reads no body of a 5xx)
BodyStalls ==
  /\ fpc = "fetch"
  /\ \E status \in Statuses :
       /\ callee = "multipart" \/ ResOk(status) \/ ~shouldRetry(status, None)
       /\ accepted' = (accepted \/ ResOk(status))
  /\ fpc' = "body"
  /\ timers' = timers \ {attempt}
  /\ UNCHANGED <<callee, retries, attempt, requests, last, lastStatus, lastError,
                 history, delays, result, headers, headerValues>>
  /\ UNCHANGED notForward


(***************************************************************************)
(* The rate limiters.  checkRateLimit of lib/folder-upload/rate-limit.ts   *)
(* throws RateLimitError(retryAfter) to deny; checkRateLimit of            *)
(* lib/security.ts returns false.  Each is given here as the store it      *)
(* leaves and the answer it gives for a check of ip at time t.             *)
(***************************************************************************)
Keys == {"ip1", "ip2"}

EmptyStore == [k \in Keys |-> None]

\* Math.ceil(a / b) for a >= 0, b > 0
Ceil_Floor(a, b) == a \div b

Ceil(a, b) == (a + b - 1) \div b

checkRateLimit_OffByOne(store, ip, t) ==
  IF ~rlEnabled
    THEN [store |-> store, ok |-> TRUE, retryAfter |-> 0]
    ELSE LET record == store[ip]
         IN IF record = None \/ t > record.resetAt
              THEN [store |-> [store EXCEPT ![ip] = [count |-> 1, resetAt |-> t + windowMs]],
                    ok |-> TRUE, retryAfter |-> 0]
              ELSE IF record.count > maxRequests
                THEN [store |-> store, ok |-> FALSE,
                      retryAfter |-> Ceil(record.resetAt - t, 1000)]
                ELSE [store |-> [store EXCEPT ![ip].count = record.count + 1],
                      ok |-> TRUE, retryAfter |-> 0]

checkRateLimit(store, ip, t) ==
  IF ~rlEnabled
    THEN [store |-> store, ok |-> TRUE, retryAfter |-> 0]
    ELSE LET record == store[ip]
         IN IF record = None \/ t > record.resetAt
              THEN [store |-> [store EXCEPT ![ip] = [count |-> 1, resetAt |-> t + windowMs]],
                    ok |-> TRUE, retryAfter |-> 0]
              ELSE IF record.count >= maxRequests
                THEN [store |-> store, ok |-> FALSE,
                      retryAfter |-> Ceil(record.resetAt - t, 1000)]
                ELSE [store |-> [store EXCEPT ![ip].count = record.count + 1],
                      ok |-> TRUE, retryAfter |-> 0]

securityCheckRateLimit_KeepCount(store, ip, t) ==
  LET entry == store[ip]
  IN IF entry = None
       THEN [store |-> [store EXCEPT ![ip] = [count |-> 1, resetAt |-> t + windowMs]],
             ok |-> TRUE, retryAfter |-> 0]
       ELSE IF t > entry.resetAt
         THEN [store |-> [store EXCEPT ![ip] = [count |-> entry.count,
                                                resetAt |-> t + windowMs]],
               ok |-> TRUE, retryAfter |-> 0]
         ELSE IF entry.count >= maxRequests
           THEN [store |-> store, ok |-> FALSE, retryAfter |-> 0]
           ELSE [store |-> [store EXCEPT ![ip].count = entry.count + 1],
                 ok |-> TRUE, retryAfter |-> 0]

\* lib/security.ts: no retryAfter is computed (0 here)
securityCheckRateLimit(store, ip, t) ==
  LET entry == store[ip]
  IN IF entry = None \/ t > entry.resetAt
       THEN [store |-> [store EXCEPT ![ip] = [count |-> 1, resetAt |-> t + windowMs]],
             ok |-> TRUE, retryAfter |-> 0]
       ELSE IF entry.count >= maxRequests
         THEN [store |-> store, ok |-> FALSE, retryAfter |-> 0]
         ELSE [store |-> [store EXCEPT ![ip].count = entry.count + 1],
               ok |-> TRUE, retryAfter |-> 0]

\* the setInterval cleanup of rate-limit.ts / cleanupRateLimits of security.ts
cleanupRateLimits_All(store, t) ==
  [k \in Keys |-> None]

cleanupRateLimits(store, t) ==
  [k \in Keys |-> IF store[k] # None /\ t > store[k].resetAt THEN None ELSE store[k]]

\* What an observer of the key writes down for a check at time t: how long
\* the key's window has been open, and the ordinal of the check in it.  A
\* window is over once more than windowMs have elapsed since it was opened.
Elapsed(ip, t) == IF opened[ip] < 0 THEN -1 ELSE t - opened[ip]

NewWindow(ip, t) == opened[ip] < 0 \/ t - opened[ip] > windowMs

Observe(ip, t, pre, r) ==
  /\ lastCheck' = [key |-> ip, at |-> t, pre |-> pre, ok |-> r.ok,
                   retryAfter |-> r.retryAfter, post |-> r.store[ip],
                   elapsed |-> Elapsed(ip, t),
                   nth |-> IF NewWindow(ip, t) THEN 1 ELSE made[ip] + 1]
  /\ opened' = IF NewWindow(ip, t) THEN [opened EXCEPT ![ip] = t] ELSE opened
  /\ made' = IF NewWindow(ip, t) THEN [made EXCEPT ![ip] = 1]
             ELSE [made EXCEPT ![ip] = Min(made[ip] + 1, MaxLimit + 2)]

Check(ip) ==
  /\ limiter = "rate-limit"
  /\ LET r == checkRateLimit(ipStore, ip, now)
     IN /\ ipStore' = r.store
        /\ Observe(ip, now, ipStore[ip], r)
  /\ UNCHANGED <<now, limiter, rateLimitMap, maxRequests, windowMs, rlEnabled>>
  /\ UNCHANGED notLimiter

SecurityCheck(ip) ==
  /\ limiter = "security"
  /\ LET r == securityCheckRateLimit(rateLimitMap, ip, now)
     IN /\ rateLimitMap' = r.store
        /\ Observe(ip, now, rateLimitMap[ip], r)
  /\ UNCHANGED <<now, limiter, ipStore, maxRequests, windowMs, rlEnabled>>
  /\ UNCHANGED notLimiter

Sweep ==
  /\ limiter = "rate-limit"
  /\ ipStore' = cleanupRateLimits(ipStore, now)
  /\ UNCHANGED <<now, limiter, rateLimitMap, maxRequests, windowMs, rlEnabled,
                 lastCheck, opened, made>>
  /\ UNCHANGED notLimiter

SecuritySweep ==
  /\ limiter = "security"
  /\ rateLimitMap' = cleanupRateLimits(rateLimitMap, now)
  /\ UNCHANGED <<now, limiter, ipStore, maxRequests, windowMs, rlEnabled,
                 lastCheck, opened, made>>
  /\ UNCHANGED notLimiter

Tick ==
  /\ now < MaxNow
  /\ now' = now + 1
  /\ UNCHANGED <<limiter, ipStore, rateLimitMap, maxRequests, windowMs, rlEnabled,
                 lastCheck, opened, made>>
  /\ UNCHANGED notLimiter

\* getRateLimitInfo(ip) of rate-limit.ts at time t
getRateLimitInfo(store, ip, t) ==
  LET record == store[ip]
  IN IF record = None \/ t > record.resetAt
       THEN [remaining |-> maxRequests, resetAt |-> t + windowMs, limit |-> maxRequests]
       ELSE [remaining |-> IF maxRequests - record.count > 0
                             THEN maxRequests - record.count ELSE 0,
             resetAt |-> record.resetAt, limit |-> maxRequests]

\* one check of ip, given to the limiter and to the run that is never swept
CheckBoth(ip) ==
  /\ LET r == IF limiter = "rate-limit" THEN checkRateLimit(ipStore, ip, now)
              ELSE securityCheckRateLimit(rateLimitMap, ip, now)
         u == IF limiter = "rate-limit" THEN checkRateLimit(unswept, ip, now)
              ELSE securityCheckRateLimit(unswept, ip, now)
     IN /\ IF limiter = "rate-limit"
             THEN ipStore' = r.store /\ UNCHANGED rateLimitMap
             ELSE rateLimitMap' = r.store /\ UNCHANGED ipStore
        /\ Observe(ip, now, IF limiter = "rate-limit" THEN ipStore[ip] ELSE rateLimitMap[ip], r)
        /\ unswept' = u.store
        /\ lastUnswept' = [ok |-> u.ok, retryAfter |-> u.retryAfter]
  /\ UNCHANGED <<now, limiter, maxRequests, windowMs, rlEnabled, info>>
  /\ UNCHANGED <<fvars, evars, pvars, vvars, xvars>>

\* const rateLimitInfo = getRateLimitInfo(clientIP)
Info_Creates(ip) ==
  /\ limiter = "rate-limit"
  /\ info' = [key |-> ip, at |-> now, value |-> getRateLimitInfo(ipStore, ip, now)]
  /\ ipStore' = [ipStore EXCEPT ![ip] = [count |-> 0, resetAt |-> now + windowMs]]
  /\ UNCHANGED <<now, limiter, rateLimitMap, maxRequests, windowMs, rlEnabled,
                 lastCheck, opened, made, unswept, lastUnswept>>
  /\ UNCHANGED <<fvars, evars, pvars, vvars, xvars>>

Info(ip) ==
  /\ limiter = "rate-limit"
  /\ info' = [key |-> ip, at |-> now, value |-> getRateLimitInfo(ipStore, ip, now)]
  /\ UNCHANGED <<lvars, unswept, lastUnswept>>
  /\ UNCHANGED <<fvars, evars, pvars, vvars, xvars>>

\* the instants (ms) and windows (ms) at which the seconds of a retry-after
\* are looked at: around the whole seconds
Instants == {0, 1, 999, 1000, 1001, 2500}

RetryWindows == {1, 1000, 1001, 2500}

\* time passes to a later one of the instants
Advance ==
  /\ \E t \in Instants : t > now /\ now' = t
  /\ UNCHANGED <<limiter, ipStore, rateLimitMap, maxRequests, windowMs, rlEnabled,
                 lastCheck, opened, made>>
  /\ UNCHANGED notLimiter

LimiterFresh ==
  /\ now = 0
  /\ ipStore = EmptyStore
  /\ rateLimitMap = EmptyStore
  /\ lastCheck = None
  /\ opened = [k \in Keys |-> -1]
  /\ made = [k \in Keys |-> 0]
  /\ unswept = EmptyStore
  /\ lastUnswept = None
  /\ info = None

\* rate-limit.ts checks only when rateLimitConfig.enabled; security.ts always
LimiterOn == limiter = "rate-limit" => rlEnabled

\* the limiter configuration of a run that does not exercise the limiters
LimiterUnused ==
  /\ LimiterFresh
  /\ limiter = "rate-limit"
  /\ maxRequests = 1
  /\ windowMs = 1
  /\ rlEnabled = TRUE

(***************************************************************************)
(* Paths are sequences of one-character strings.  The operators below are  *)
(* the String.prototype.replace calls of the normalizers, each a single    *)
(* left-to-right pass over its input as a global regular expression makes. *)
(***************************************************************************)
\* s.replace(/\\/g, '/')
BackslashesToSlashes(s) == [i \in 1 .. Len(s) |-> IF s[i] = "\\" THEN "/" ELSE s[i]]

\* s.replace(/^\/*/, '') and s.replace(/^\/+/, '')
RECURSIVE StripLeadingSlashes(_)
StripLeadingSlashes(s) ==
  IF s # <<>> /\ Head(s) = "/" THEN StripLeadingSlashes(Tail(s)) ELSE s

\* s.replace(/\/{2,}/g, '/') and s.replace(/\/+/g, '/')
RECURSIVE CollapseSlashes(_)
CollapseSlashes(s) ==
  IF Len(s) < 2 THEN s
  ELSE IF s[1] = "/" /\ s[2] = "/" THEN CollapseSlashes(Tail(s))
  ELSE <<s[1]>> \o CollapseSlashes(Tail(s))

HasAt(s, j, seg) == j + Len(seg) - 1 <= Len(s) /\ SubSeq(s, j, j + Len(seg) - 1) = seg

\* the lookahead (?=\/|$) at position j
SlashOrEnd(s, j) == j > Len(s) \/ s[j] = "/"

\* length of the match of /(^|\/)seg(?=\/|$)/ that starts at position i (0: none)
SegmentMatch(s, i, seg) ==
  IF i = 1 /\ HasAt(s, 1, seg) /\ SlashOrEnd(s, 1 + Len(seg)) THEN Len(seg)
  ELSE IF s[i] = "/" /\ HasAt(s, i + 1, seg) /\ SlashOrEnd(s, i + 1 + Len(seg))
    THEN Len(seg) + 1
    ELSE 0

\* s.replace(/(^|\/)seg(?=\/|$)/g, '') from position i on
RECURSIVE StripSegments(_, _, _)
StripSegments(s, i, seg) ==
  IF i > Len(s) THEN <<>>
  ELSE LET m == SegmentMatch(s, i, seg)
       IN IF m > 0 THEN StripSegments(s, i + m, seg)
          ELSE <<s[i]>> \o StripSegments(s, i + 1, seg)

\* s.trim()
RECURSIVE TrimEnd(_)
TrimEnd(s) == IF s # <<>> /\ s[Len(s)] = " " THEN TrimEnd(SubSeq(s, 1, Len(s) - 1)) ELSE s

RECURSIVE TrimStart(_)
TrimStart(s) == IF s # <<>> /\ Head(s) = " " THEN TrimStart(Tail(s)) ELSE s

\* normalizeRelPath of lib/folder-upload/validation.ts
normalizeRelPath(p) ==
  TrimEnd(TrimStart(
    StripSegments(
      StripSegments(
        CollapseSlashes(StripLeadingSlashes(BackslashesToSlashes(p))),
        1, <<".", ".">>),
      1, <<".">>)))

\* s.replace(/\.\./g, '')
RECURSIVE RemoveDotDot(_)
RemoveDotDot(s) ==
  IF s = <<>> THEN <<>>
  ELSE IF HasAt(s, 1, <<".", ".">>) THEN RemoveDotDot(SubSeq(s, 3, Len(s)))
  ELSE <<Head(s)>> \o RemoveDotDot(Tail(s))

\* the characters of /[<>:"|?*\x00-\x1f]/
InvalidChars == {"<", ">", ":", "\"", "|", "?", "*", "\t", "\n", "\r", "\f"}

IsValidChar(c) == c \notin InvalidChars

\* sanitizePath of lib/folder-upload/validation.ts
sanitizePath(path) ==
  SelectSeq(CollapseSlashes(StripLeadingSlashes(RemoveDotDot(path))), IsValidChar)

\* what a call of a normalizer did: it returned a string or threw an Error
Returned(value) == [threw |-> FALSE, value |-> value, error |-> ""]

Thrown(error) == [threw |-> TRUE, value |-> <<>>, error |-> error]

\* s.includes(sub)
Includes(s, sub) == \E i \in 1 .. Len(s) : HasAt(s, i, sub)

\* s.replace(/\/+$/, '')
RECURSIVE StripTrailingSlashes(_)
StripTrailingSlashes(s) ==
  IF s # <<>> /\ s[Len(s)] = "/" THEN StripTrailingSlashes(SubSeq(s, 1, Len(s) - 1)) ELSE s

\* the character '\0'
NUL == "NUL"

\* the characters of /[a-zA-Z0-9\-_./ ]/ among those the model's paths use
AllowedPathChars ==
  {"a", "b", "c", "d", "j", "x", "A", "D", "J", "X", "0", "1", "-", "_", ".", "/", " "}

\* /^[a-zA-Z0-9\-_./ ]+$/.test(s)
OnlyAllowedPathChars(s) == s # <<>> /\ \A i \in 1 .. Len(s) : s[i] \in AllowedPathChars

\* sanitizePath of lib/security.ts
securitySanitizePath(p) ==
  IF p = <<>> THEN Thrown("Invalid path: empty path")
  ELSE
    LET stripped == StripLeadingSlashes(p)
        trimmed  == StripTrailingSlashes(CollapseSlashes(stripped))
    IN IF Includes(stripped, <<".", ".">>)
         THEN Thrown("Invalid path: parent directory traversal not allowed")
       ELSE IF trimmed # <<>> /\ Head(trimmed) = "/"
         THEN Thrown("Invalid path: absolute paths not allowed")
       ELSE IF Includes(trimmed, <<NUL>>)
         THEN Thrown("Invalid path: null bytes not allowed")
       ELSE IF ~OnlyAllowedPathChars(trimmed)
         THEN Thrown("Invalid path: contains invalid characters")
       ELSE Returned(trimmed)

\* toLowerCase on the letters the model's names use
LowerChar(c) == CASE c = "A" -> "a" [] c = "D" -> "d" [] c = "J" -> "j" [] c = "X" -> "x"
                  [] OTHER -> c

toLowerCase(s) == [i \in 1 .. Len(s) |-> LowerChar(s[i])]

\* index of the last "." of s (0: none)
LastDot(s) ==
  LET D == {i \in 1 .. Len(s) : s[i] = "."}
  IN IF D = {} THEN 0 ELSE CHOOSE i \in D : \A j \in D : j <= i

\* extOf: the group of /\.([^.]+)$/ on the lower-cased name, or ''
extOf(name) ==
  LET d == LastDot(name)
  IN IF d = 0 \/ d = Len(name) THEN <<>>
     ELSE SubSeq(toLowerCase(name), d + 1, Len(name))

isAllowedExt_Any(ext, allowed) == TRUE

isAllowedExt(ext, allowed) == ext \in allowed

\* getFileExtension: '.' + the lower-cased group of /\.([^.]+)$/, or ''
getFileExtension(filename) ==
  LET d == LastDot(filename)
  IN IF d = 0 \/ d = Len(filename) THEN <<>>
     ELSE <<".">> \o toLowerCase(SubSeq(filename, d + 1, Len(filename)))

(***************************************************************************)
(* The upload configuration, scaled down: sizes are in bytes.              *)
(***************************************************************************)
\* uploadConfig.allowedExtensions (".j" stands for ".jpg")
allowedExtensions == {<<".", "j">>}

\* getConfig().allowedExts: the same list with the leading dot removed
allowedExts == {IF e # <<>> /\ Head(e) = "." THEN Tail(e) ELSE e : e \in allowedExtensions}

\* uploadConfig.maxFileSize and uploadConfig.maxTotalSize
maxFileSize == 2

maxTotalSize == 3

(***************************************************************************)
(* The parts of an inbound multipart body.                                 *)
(***************************************************************************)
\* most files[] parts of one inbound batch, and the largest file (bytes)
MaxBatch == 2

MaxSize == 3

Sizes == 0 .. MaxSize

\* the filenames a files[] part may carry
InboundNames ==
  { <<"a", ".", "j">>,                               \* a.j
    <<"d", "/", "a", ".", "j">>,                     \* d/a.j
    <<"/", "a", ".", "j">>,                          \* /a.j
    <<"d", "/", "/", "a", ".", "j">>,                \* d//a.j
    <<".", ".", "/", "a", ".", "j">>,                \* ../a.j
    <<"d", "/", ".", ".", "/", "a", ".", "j">>,      \* d/../a.j
    <<".", ".", "\\", "a", ".", "j">>,               \* ..\a.j
    <<".", "/", "a", ".", "j">>,                     \* ./a.j
    <<"a", ".", ".", "j">>,                          \* a..j
    <<".", "<", ".", "/", "a", ".", "j">>,           \* .<./a.j
    <<"a", ".", "x">>,                               \* a.x
    <<"a">>,                                         \* a
    <<".", ".">> }                                   \* ..

\* whether some "/"-separated segment of s is exactly seg
HasSegment(s, seg) ==
  \E i \in 1 .. Len(s) :
     /\ HasAt(s, i, seg)
     /\ (i = 1 \/ s[i - 1] = "/")
     /\ SlashOrEnd(s, i + Len(seg))

(***************************************************************************)
(* The three path normalizers as functions of one string: a call of one of *)
(* them on the string in inputPath, recorded in applied.                   *)
(***************************************************************************)
\* longest path enumerated character by character
MaxPathLen == 5

PathChars == {"a", ".", "/", "\\", " ", "<"}

RECURSIVE PathsOfLength(_)
PathsOfLength(n) ==
  IF n = 0 THEN {<<>>}
  ELSE {<<c>> \o s : c \in PathChars, s \in PathsOfLength(n - 1)}

\* the paths of the tests of the normalizers that are longer than MaxPathLen
NamedPaths ==
  { <<"a", "/", "/", "b", "/", "/", "/", "c">>,           \* a//b///c
    <<"d", "/", "/", "a", ".", "j">>,                     \* folder//file.jpg
    <<"d", "/", "a", ".", "j", "/", "/">>,                \* folder/file.jpg//
    <<"/", "/", "d", "/", "a", ".", "j">>,                \* //folder/file.jpg
    <<"d", "/", ".", ".", "/", "a", ".", "j">>,           \* folder/../etc/passwd
    <<"d", "/", "a", ".", ".", "b", ".", "j">>,           \* dir/a..b.jpg
    <<"a", ".", ".", "b", ".", "j">>,                     \* a..b.jpg
    <<"d", "\\", "a", ".", "j">>,                         \* folder\file.jpg
    <<"d", "/", "a", NUL, ".", "j">> }                    \* folder/file\0.jpg

PathInputs == UNION {PathsOfLength(n) : n \in 0 .. MaxPathLen} \cup NamedPaths

NotApplied == [fn |-> "none", threw |-> FALSE, value |-> <<>>, error |-> ""]

AppliedTo(fn, r) == [fn |-> fn, threw |-> r.threw, value |-> r.value, error |-> r.error]

PathsUnused ==
  /\ inputPath = <<>>
  /\ applied = NotApplied

ApplySecuritySanitizePath ==
  /\ applied.fn = "none"
  /\ applied' = AppliedTo("security.sanitizePath", securitySanitizePath(inputPath))
  /\ UNCHANGED inputPath
  /\ UNCHANGED <<fvars, lvars, evars, vvars, xvars, svars>>

ApplyNormalizeRelPath ==
  /\ applied.fn = "none"
  /\ applied' = AppliedTo("normalizeRelPath", Returned(normalizeRelPath(inputPath)))
  /\ UNCHANGED inputPath
  /\ UNCHANGED <<fvars, lvars, evars, vvars, xvars, svars>>

ApplySanitizePath ==
  /\ applied.fn = "none"
  /\ applied' = AppliedTo("sanitizePath", Returned(sanitizePath(inputPath)))
  /\ UNCHANGED inputPath
  /\ UNCHANGED <<fvars, lvars, evars, vvars, xvars, svars>>

(***************************************************************************)
(* The batch validators: validateUpload of lib/folder-upload/validation.ts *)
(* (server) and validateFiles of the browser-side folder reader (client).  *)
(* An error or a warning is kept as the rule it reports and the relative   *)
(* path its message names (<<>> for a message that names no file).         *)
(***************************************************************************)
Message(rule, relativePath) == [rule |-> rule, path |-> relativePath]

\* errors.push(...) under a condition
PushIf(cond, msg) == IF cond THEN <<msg>> ELSE <<>>

\* uploadConfig.allowedMimeTypes ("image/jpeg" alone stands for the list)
allowedMimeTypes == {"image/jpeg"}

\* validateFile of lib/folder-upload/validation.ts
validateFile_FirstOnly(file) ==
  LET p == file.relativePath
  IN IF file.size > maxFileSize THEN <<Message("size", p)>>
     ELSE IF getFileExtension(p) \notin allowedExtensions THEN <<Message("extension", p)>>
     ELSE IF allowedMimeTypes # {} /\ file.type \notin allowedMimeTypes
       THEN <<Message("mime", p)>>
     ELSE PushIf(Includes(p, <<".", ".">>), Message("traversal", p))

validateFile(file) ==
  LET p == file.relativePath
  IN PushIf(file.size > maxFileSize, Message("size", p))
     \o PushIf(getFileExtension(p) \notin allowedExtensions, Message("extension", p))
     \o PushIf(allowedMimeTypes # {} /\ file.type \notin allowedMimeTypes,
               Message("mime", p))
     \o PushIf(Includes(p, <<".", ".">>), Message("traversal", p))

\* files.reduce((sum, file) => sum + file.size, 0)
RECURSIVE TotalSize(_)
TotalSize(fs) == IF fs = <<>> THEN 0 ELSE Head(fs).size + TotalSize(Tail(fs))

\* for (const file of files) errors.push(...validateFile(file))
RECURSIVE FileErrors(_)
FileErrors(fs) == IF fs = <<>> THEN <<>> ELSE validateFile(Head(fs)) \o FileErrors(Tail(fs))

\* the duplicate check: a warning for each file whose path the Set already has
RECURSIVE DuplicateWarnings(_, _)
DuplicateWarnings(fs, paths) ==
  IF fs = <<>> THEN <<>>
  ELSE PushIf(Head(fs).relativePath \in paths, Message("duplicate", Head(fs).relativePath))
       \o DuplicateWarnings(Tail(fs), paths \cup {Head(fs).relativePath})

\* validateUpload of lib/folder-upload/validation.ts
validateUpload(fs) ==
  LET totalSize == TotalSize(fs)
      errors == PushIf(Len(fs) = 0, Message("empty", <<>>))
                \o PushIf(Len(fs) > maxFileCount, Message("count", <<>>))
                \o PushIf(totalSize > maxTotalSize, Message("total", <<>>))
                \o FileErrors(fs)
  IN [valid |-> errors = <<>>, errors |-> errors,
      warnings |-> DuplicateWarnings(fs, {}),
      totalSize |-> totalSize, fileCount |-> Len(fs)]

\* ---- the browser-side folder reader ------------------------------------
\* ALLOWED_EXTENSIONS ("j" stands for "jpg"), MAX_FILE_SIZE, MAX_TOTAL_SIZE,
\* MAX_FILES and INCLUDE_HIDDEN_FILES, scaled down as uploadConfig is
ALLOWED_EXTENSIONS == {<<"j">>}

MAX_FILE_SIZE == 2

MAX_TOTAL_SIZE == 3

MAX_FILES == 2

INCLUDE_HIDDEN_FILES == FALSE

\* File.name of a file read from a folder: the last segment of its path
BaseName(p) ==
  LET S == {i \in 1 .. Len(p) : p[i] = "/"}
  IN IF S = {} THEN p ELSE SubSeq(p, (CHOOSE i \in S : \A j \in S : j <= i) + 1, Len(p))

\* filename.split('.').pop()?.toLowerCase(), in ALLOWED_EXTENSIONS unless empty
isAllowedExtension(filename) ==
  LET ext == toLowerCase(SubSeq(filename, LastDot(filename) + 1, Len(filename)))
  IN IF ext # <<>> THEN ext \in ALLOWED_EXTENSIONS ELSE FALSE

\* filename.startsWith('.')
isHiddenFile(filename) == filename # <<>> /\ Head(filename) = "."

\* validateFile(file, relativePath) of the folder reader
clientValidateFile(file, relativePath) ==
  LET errors == PushIf(~INCLUDE_HIDDEN_FILES /\ isHiddenFile(BaseName(relativePath)),
                       Message("hidden", relativePath))
                \o PushIf(~isAllowedExtension(BaseName(relativePath)),
                          Message("extension", relativePath))
                \o PushIf(file.size > MAX_FILE_SIZE, Message("size", relativePath))
  IN [valid |-> errors = <<>>, errors |-> errors,
      warnings |-> PushIf(file.size = 0, Message("empty-file", relativePath))]

RECURSIVE ClientFileErrors(_)
ClientFileErrors(fs) ==
  IF fs = <<>> THEN <<>>
  ELSE clientValidateFile(Head(fs), Head(fs).relativePath).errors
       \o ClientFileErrors(Tail(fs))

RECURSIVE ClientFileWarnings(_)
ClientFileWarnings(fs) ==
  IF fs = <<>> THEN <<>>
  ELSE clientValidateFile(Head(fs), Head(fs).relativePath).warnings
       \o ClientFileWarnings(Tail(fs))

\* validateFiles of the folder reader
validateFiles(fs) ==
  LET totalSize == TotalSize(fs)
      errors == PushIf(Len(fs) > MAX_FILES, Message("count", <<>>))
                \o PushIf(Len(fs) = 0, Message("empty", <<>>))
                \o PushIf(totalSize > MAX_TOTAL_SIZE, Message("total", <<>>))
                \o ClientFileErrors(fs)
  IN [valid |-> errors = <<>>, errors |-> errors,
      warnings |-> ClientFileWarnings(fs),
      totalSize |-> totalSize, fileCount |-> Len(fs)]

\* ---- one call of a validator on the batch in files ---------------------
\* the relative paths and MIME types of the files of a batch
BatchPaths ==
  { <<"a", ".", "j">>,                     \* a.j
    <<"d", "/", "a", ".", "j">>,           \* d/a.j
    <<"a", ".", "x">>,                     \* a.x
    <<"a", ".", ".", "j">>,                \* a..j
    <<"d", "/", ".", "a", ".", "j">> }     \* d/.a.j

FileTypes == {"image/jpeg", "text/plain"}

UploadFiles == [relativePath : BatchPaths, size : Sizes, type : FileTypes]

\* the batches of at most n files
RECURSIVE BatchesUpTo(_)
BatchesUpTo(n) ==
  IF n = 0 THEN {<<>>}
  ELSE BatchesUpTo(n - 1)
       \cup {Append(b, f) : b \in {c \in BatchesUpTo(n - 1) : Len(c) = n - 1},
                            f \in UploadFiles}

NotValidated ==
  [by |-> "none", valid |-> FALSE, errors |-> <<>>, warnings |-> <<>>,
   totalSize |-> 0, fileCount |-> 0]

ValidatedBy(by, r) ==
  [by |-> by, valid |-> r.valid, errors |-> r.errors, warnings |-> r.warnings,
   totalSize |-> r.totalSize, fileCount |-> r.fileCount]

ValidatorsUnused ==
  /\ files = <<>>
  /\ validation = NotValidated

ValidateUpload ==
  /\ validation.by = "none"
  /\ validation' = ValidatedBy("validateUpload", validateUpload(files))
  /\ UNCHANGED files
  /\ UNCHANGED <<fvars, lvars, evars, pvars, xvars, svars>>

ValidateFiles ==
  /\ validation.by = "none"
  /\ validation' = ValidatedBy("validateFiles", validateFiles(files))
  /\ UNCHANGED files
  /\ UNCHANGED <<fvars, lvars, evars, pvars, xvars, svars>>

(***************************************************************************)
(* The upload endpoints.  One inbound request is followed from its arrival *)
(* to its response; the files[] parts are examined one per step, as the    *)
(* handlers' loops do.                                                     *)
(***************************************************************************)
Resp(status, ok, error, message) ==
  [status |-> status, ok |-> ok, error |-> error, message |-> message,
   n8nStatus |-> -1, retries |-> -1, retryAfter |-> -1, fileCount |-> -1,
   totalBytes |-> -1, structured |-> TRUE]

\* `return new Response(...)` / `return NextResponse.json(...)`
Respond(r) ==
  /\ response' = r
  /\ epc' = "responded"

\* ---- app/api/folder-upload/route.ts ------------------------------------
\* what `await rateLimit(req)` may do: resolve with rl.ok true or false, or reject
RateLimitVerdicts == {"ok", "deny", "throw"}

\* rateLimit(req), the config check, req.formData() and the files[] filter
RouteBegin ==
  /\ ep = "route"
  /\ epc = "idle"
  /\ \E rl \in RateLimitVerdicts, parses \in BOOLEAN, n \in 0 .. MaxBatch :
       LET early ==
             IF rl = "throw" THEN Resp(500, FALSE, "", "Server error")
             ELSE IF rl = "deny" THEN Resp(429, FALSE, "", "Too many requests")
             ELSE IF ~configured THEN Resp(500, FALSE, "", "Server configuration error")
             ELSE IF ~parses THEN Resp(500, FALSE, "", "Server error")
             ELSE IF n = 0 THEN Resp(400, FALSE, "", "No files[] found")
             ELSE None
       IN /\ overLimit' = (rl = "deny")
          /\ parsed' = (rl = "ok" /\ configured)
          /\ threw' = IF rl = "throw" THEN "rate-limit"
                      ELSE IF rl = "deny" THEN "none"
                      ELSE IF ~configured THEN "config"
                      ELSE IF ~parses THEN "parse"
                      ELSE "none"
          /\ IF early # None
               THEN Respond(early) /\ UNCHANGED nfiles
               ELSE /\ epc' = "validate"
                    /\ nfiles' = n
                    /\ UNCHANGED response
  /\ UNCHANGED <<ep, configured, authEnabled, maxFileCount, out, totalBytes, count,
                 sawDotDot, inbound, clientAborted>>
  /\ UNCHANGED <<fvars, lvars, pvars, vvars, xvars, svars>>

\* one iteration of `for (const f of files)`
RouteValidateFile ==
  /\ ep = "route"
  /\ epc = "validate"
  /\ count < nfiles
  /\ \E name \in InboundNames, size \in Sizes :
       LET rel == normalizeRelPath(name)
           ext == extOf(rel)
       IN /\ sawDotDot' = (sawDotDot \/ HasSegment(name, <<".", ".">>))
          /\ inbound' = Append(inbound, [name |-> name, size |-> size])
          /\ IF ~isAllowedExt(ext, allowedExts)
               THEN /\ Respond(Resp(400, FALSE, "", "Disallowed type"))
                    /\ UNCHANGED <<out, totalBytes, count>>
             ELSE IF size > maxFileSize
               THEN /\ Respond(Resp(400, FALSE, "", "File too large"))
                    /\ UNCHANGED <<out, totalBytes, count>>
             ELSE /\ totalBytes' = totalBytes + size
                  /\ count' = count + 1
                  /\ IF totalBytes + size > maxTotalSize
                       THEN /\ Respond(Resp(400, FALSE, "", "Total size exceeds limit"))
                            /\ UNCHANGED out
                       ELSE /\ out' = Append(out, [filename |-> rel, size |-> size])
                            /\ UNCHANGED <<epc, response>>
  /\ UNCHANGED <<overLimit, parsed, threw, clientAborted, pvars, vvars, xvars, svars>>
  /\ UNCHANGED <<ep, configured, authEnabled, maxFileCount, nfiles>>
  /\ UNCHANGED <<fvars, lvars>>

\* after the loop: `await forwardToN8nMultipart({...})`
RouteForward ==
  /\ ep = "route"
  /\ epc = "validate"
  /\ count = nfiles
  /\ epc' = "forwarding"
  /\ \E metaJson \in BOOLEAN : BeginForward("multipart", TRUE, metaJson, count, totalBytes)
  /\ UNCHANGED <<overLimit, parsed, threw, clientAborted, pvars, vvars, xvars, svars>>
  /\ UNCHANGED <<ep, configured, authEnabled, maxFileCount, nfiles, out, totalBytes,
                 count, response, sawDotDot, inbound>>
  /\ UNCHANGED lvars

\* `if (res.ok) ... else ...` on the forwarder's result
RouteReply ==
  /\ ep = "route"
  /\ epc = "forwarding"
  /\ fpc = "done"
  /\ Respond(IF result.ok
               THEN [Resp(200, TRUE, "", "Upload successful") EXCEPT
                       !.retries = result.retries, !.fileCount = count,
                       !.totalBytes = totalBytes]
               ELSE [Resp(IF result.status = 0 THEN 502 ELSE result.status, FALSE, "",
                          "n8n") EXCEPT
                       !.n8nStatus = result.status, !.retries = result.retries])
  /\ UNCHANGED <<overLimit, parsed, threw, clientAborted, pvars, vvars, xvars, svars>>
  /\ UNCHANGED <<ep, configured, authEnabled, maxFileCount, nfiles, out, totalBytes,
                 count, sawDotDot, inbound>>
  /\ UNCHANGED <<fvars, lvars>>

\* ---- the handler with validateConfig, auth and checkRateLimit ----------
\* POST up to the file loop: steps 0 to 4 before `for (const entry of ...)`
UploadBegin ==
  /\ ep = "upload"
  /\ epc = "idle"
  /\ \E ip \in Keys, authOk \in BOOLEAN, parses \in BOOLEAN, metaOk \in BOOLEAN,
        n \in 0 .. MaxBatch :
       LET r == checkRateLimit(ipStore, ip, now)
           checked == configured /\ (authEnabled => authOk)
           early ==
             IF ~configured
               THEN Resp(500, FALSE, "INTERNAL_ERROR", "An unexpected error occurred")
             ELSE IF authEnabled /\ ~authOk
               THEN Resp(401, FALSE, "UNAUTHORIZED", "Invalid credentials")
             ELSE IF ~r.ok
               THEN [Resp(429, FALSE, "RATE_LIMIT_EXCEEDED", "Too many uploads") EXCEPT
                       !.retryAfter = r.retryAfter]
             ELSE IF ~parses
               THEN Resp(500, FALSE, "INTERNAL_ERROR", "An unexpected error occurred")
             ELSE IF ~metaOk
               THEN Resp(400, FALSE, "VALIDATION_FAILED", "Invalid metadata JSON")
             ELSE IF n = 0
               THEN Resp(400, FALSE, "VALIDATION_FAILED", "No files provided")
             ELSE IF n > maxFileCount
               THEN Resp(400, FALSE, "VALIDATION_FAILED", "Too many files")
             ELSE None
       IN /\ overLimit' = ~r.ok
          /\ parsed' = (checked /\ r.ok)
          /\ threw' = IF ~configured THEN "config"
                      ELSE IF checked /\ r.ok /\ ~parses THEN "parse"
                      ELSE "none"
          /\ IF checked
               THEN ipStore' = r.store /\ Observe(ip, now, ipStore[ip], r)
               ELSE UNCHANGED <<ipStore, lastCheck, opened, made>>
          /\ IF early # None
               THEN Respond(early) /\ UNCHANGED nfiles
               ELSE /\ epc' = "validate"
                    /\ nfiles' = n
                    /\ UNCHANGED response
  /\ UNCHANGED <<ep, configured, authEnabled, maxFileCount, out, totalBytes, count,
                 sawDotDot, inbound, clientAborted>>
  /\ UNCHANGED <<now, limiter, rateLimitMap, maxRequests, windowMs, rlEnabled>>
  /\ UNCHANGED <<fvars, pvars, vvars, xvars, svars>>

\* one iteration of `for (const entry of fileEntries)`
UploadValidateFile_TotalAtLimit ==
  /\ ep = "upload"
  /\ epc = "validate"
  /\ count < nfiles
  /\ \E isFile \in BOOLEAN, name \in InboundNames, size \in Sizes :
       LET relativePath == sanitizePath(name)
           ext == getFileExtension(relativePath)
       IN IF ~isFile
            THEN /\ Respond(Resp(400, FALSE, "VALIDATION_FAILED", "Invalid file entry"))
                 /\ UNCHANGED <<out, totalBytes, count, sawDotDot, inbound>>
          ELSE /\ sawDotDot' = (sawDotDot \/ HasSegment(name, <<".", ".">>))
               /\ inbound' = Append(inbound, [name |-> name, size |-> size])
               /\ IF ext \notin allowedExtensions
                    THEN /\ Respond(Resp(400, FALSE, "VALIDATION_FAILED",
                                         "disallowed extension"))
                         /\ UNCHANGED <<out, totalBytes, count>>
                  ELSE IF size > maxFileSize
                    THEN /\ Respond(Resp(400, FALSE, "VALIDATION_FAILED",
                                         "exceeds max size"))
                         /\ UNCHANGED <<out, totalBytes, count>>
                  ELSE /\ totalBytes' = totalBytes + size
                       /\ IF totalBytes + size >= maxTotalSize
                            THEN /\ Respond(Resp(400, FALSE, "VALIDATION_FAILED",
                                                 "Total upload size exceeds limit"))
                                 /\ UNCHANGED <<out, count>>
                            ELSE /\ out' = Append(out, [filename |-> relativePath,
                                                        size |-> size])
                                 /\ count' = count + 1
                                 /\ UNCHANGED <<epc, response>>
  /\ UNCHANGED <<overLimit, parsed, threw, clientAborted, pvars, vvars, xvars, svars>>
  /\ UNCHANGED <<ep, configured, authEnabled, maxFileCount, nfiles>>
  /\ UNCHANGED <<fvars, lvars>>

UploadValidateFile ==
  /\ ep = "upload"
  /\ epc = "validate"
  /\ count < nfiles
  /\ \E isFile \in BOOLEAN, name \in InboundNames, size \in Sizes :
       LET relativePath == sanitizePath(name)
           ext == getFileExtension(relativePath)
       IN IF ~isFile
            THEN /\ Respond(Resp(400, FALSE, "VALIDATION_FAILED", "Invalid file entry"))
                 /\ UNCHANGED <<out, totalBytes, count, sawDotDot, inbound>>
          ELSE /\ sawDotDot' = (sawDotDot \/ HasSegment(name, <<".", ".">>))
               /\ inbound' = Append(inbound, [name |-> name, size |-> size])
               /\ IF ext \notin allowedExtensions
                    THEN /\ Respond(Resp(400, FALSE, "VALIDATION_FAILED",
                                         "disallowed extension"))
                         /\ UNCHANGED <<out, totalBytes, count>>
                  ELSE IF size > maxFileSize
                    THEN /\ Respond(Resp(400, FALSE, "VALIDATION_FAILED",
                                         "exceeds max size"))
                         /\ UNCHANGED <<out, totalBytes, count>>
                  ELSE /\ totalBytes' = totalBytes + size
                       /\ IF totalBytes + size > maxTotalSize
                            THEN /\ Respond(Resp(400, FALSE, "VALIDATION_FAILED",
                                                 "Total upload size exceeds limit"))
                                 /\ UNCHANGED <<out, count>>
                            ELSE /\ out' = Append(out, [filename |-> relativePath,
                                                        size |-> size])
                                 /\ count' = count + 1
                                 /\ UNCHANGED <<epc, response>>
  /\ UNCHANGED <<overLimit, parsed, threw, clientAborted, pvars, vvars, xvars, svars>>
  /\ UNCHANGED <<ep, configured, authEnabled, maxFileCount, nfiles>>
  /\ UNCHANGED <<fvars, lvars>>

\* steps 5 and 6: rebuild the FormData, `await forwardToN8n(...)`
UploadForward ==
  /\ ep = "upload"
  /\ epc = "validate"
  /\ count = nfiles
  /\ epc' = "forwarding"
  /\ BeginForward("n8n", TRUE, TRUE, Len(out), totalBytes)
  /\ UNCHANGED <<overLimit, parsed, threw, clientAborted, pvars, vvars, xvars, svars>>
  /\ UNCHANGED <<ep, configured, authEnabled, maxFileCount, nfiles, out, totalBytes,
                 count, response, sawDotDot, inbound>>
  /\ UNCHANGED lvars

\* step 7 on return, the N8nError branch of the catch on throw
UploadReply ==
  /\ ep = "upload"
  /\ epc = "forwarding"
  /\ fpc = "done"
  /\ Respond(IF result.how = "return"
               THEN [Resp(200, TRUE, "", "Upload successful") EXCEPT
                       !.fileCount = Len(out), !.totalBytes = totalBytes]
               ELSE [Resp(502, FALSE, "WEBHOOK_FAILED", "n8n") EXCEPT
                       !.n8nStatus = result.status, !.retries = result.retries])
  /\ UNCHANGED <<overLimit, parsed, threw, clientAborted, pvars, vvars, xvars, svars>>
  /\ UNCHANGED <<ep, configured, authEnabled, maxFileCount, nfiles, out, totalBytes,
                 count, sawDotDot, inbound>>
  /\ UNCHANGED <<fvars, lvars>>

\* ---- the browser ---------------------------------------------------------
\* abortControllerRef.current.abort() while the POST of the page is pending
\* and the handler awaits its forward call; the handlers never read req.signal
ClientAbort ==
  /\ epc = "forwarding"
  /\ fpc # "done"
  /\ ~clientAborted
  /\ clientAborted' = TRUE
  /\ UNCHANGED <<ep, epc, configured, authEnabled, maxFileCount, nfiles, out, totalBytes,
                 count, response, sawDotDot, inbound, overLimit, parsed, threw>>
  /\ UNCHANGED <<fvars, lvars, pvars, vvars, xvars, svars>>

\* ---- the earlier route.ts kept in part_008: no try/catch ----------------
\* what the framework sends when the handler's promise rejects
Uncaught ==
  [Resp(500, FALSE, "", "unhandled rejection") EXCEPT !.structured = FALSE]

\* rateLimit(req), getConfig(), req.formData() and the files[] filter
LegacyBegin ==
  /\ ep = "legacy"
  /\ epc = "idle"
  /\ \E rl \in RateLimitVerdicts, parses \in BOOLEAN, n \in 0 .. MaxBatch :
       LET early ==
             IF rl = "throw" THEN Uncaught
             ELSE IF rl = "deny" THEN Resp(429, FALSE, "", "Too many requests")
             ELSE IF ~parses THEN Uncaught
             ELSE IF n = 0 THEN Resp(400, FALSE, "", "No files[] found")
             ELSE None
       IN /\ overLimit' = (rl = "deny")
          /\ parsed' = (rl = "ok")
          /\ threw' = IF rl = "throw" THEN "rate-limit"
                      ELSE IF rl = "ok" /\ ~parses THEN "parse"
                      ELSE "none"
          /\ IF early # None
               THEN Respond(early) /\ UNCHANGED nfiles
               ELSE /\ epc' = "validate"
                    /\ nfiles' = n
                    /\ UNCHANGED response
  /\ UNCHANGED <<ep, configured, authEnabled, maxFileCount, out, totalBytes, count,
                 sawDotDot, inbound, clientAborted>>
  /\ UNCHANGED <<fvars, lvars, pvars, vvars, xvars, svars>>

\* one iteration of `for (const f of files)`
LegacyValidateFile ==
  /\ ep = "legacy"
  /\ epc = "validate"
  /\ count < nfiles
  /\ \E name \in InboundNames, size \in Sizes :
       LET rel == normalizeRelPath(name)
           ext == extOf(rel)
       IN /\ sawDotDot' = (sawDotDot \/ HasSegment(name, <<".", ".">>))
          /\ inbound' = Append(inbound, [name |-> name, size |-> size])
          /\ IF ~isAllowedExt(ext, allowedExts)
               THEN /\ Respond(Resp(400, FALSE, "", "Disallowed type"))
                    /\ UNCHANGED <<out, totalBytes, count>>
             ELSE IF size > maxFileSize
               THEN /\ Respond(Resp(400, FALSE, "", "File too large"))
                    /\ UNCHANGED <<out, totalBytes, count>>
             ELSE /\ totalBytes' = totalBytes + size
                  /\ count' = count + 1
                  /\ IF totalBytes + size > maxTotalSize
                       THEN /\ Respond(Resp(400, FALSE, "", "Total size exceeds limit"))
                            /\ UNCHANGED out
                       ELSE /\ out' = Append(out, [filename |-> rel, size |-> size])
                            /\ UNCHANGED <<epc, response>>
  /\ UNCHANGED <<overLimit, parsed, threw, clientAborted, pvars, vvars, xvars, svars>>
  /\ UNCHANGED <<ep, configured, authEnabled, maxFileCount, nfiles>>
  /\ UNCHANGED <<fvars, lvars>>

\* after the loop: `await forwardToN8nMultipart({...})`
LegacyForward ==
  /\ ep = "legacy"
  /\ epc = "validate"
  /\ count = nfiles
  /\ epc' = "forwarding"
  /\ \E metaJson \in BOOLEAN : BeginForward("multipart", TRUE, metaJson, count, totalBytes)
  /\ UNCHANGED <<overLimit, parsed, threw, clientAborted, pvars, vvars, xvars, svars>>
  /\ UNCHANGED <<ep, configured, authEnabled, maxFileCount, nfiles, out, totalBytes,
                 count, response, sawDotDot, inbound>>
  /\ UNCHANGED lvars

\* `new Response(payload, {status: res.ok ? 200 : (res.status || 502)})`:
\* the body is the downstream's text, not an {ok, ...} object
LegacyReply ==
  /\ ep = "legacy"
  /\ epc = "forwarding"
  /\ fpc = "done"
  /\ Respond([Resp(IF result.ok THEN 200
                   ELSE IF result.status = 0 THEN 502 ELSE result.status,
                   result.ok, "", "n8n") EXCEPT
               !.retries = result.retries, !.structured = FALSE])
  /\ UNCHANGED <<overLimit, parsed, threw, clientAborted, pvars, vvars, xvars, svars>>
  /\ UNCHANGED <<ep, configured, authEnabled, maxFileCount, nfiles, out, totalBytes,
                 count, sawDotDot, inbound>>
  /\ UNCHANGED <<fvars, lvars>>

\* no request has arrived
EndpointIdle ==
  /\ epc = "idle"
  /\ nfiles = 0
  /\ out = <<>>
  /\ totalBytes = 0
  /\ count = 0
  /\ response = None
  /\ sawDotDot = FALSE
  /\ inbound = <<>>
  /\ clientAborted = FALSE
  /\ overLimit = FALSE
  /\ parsed = FALSE
  /\ threw = "none"

\* the endpoint configuration of a run that does not exercise the endpoints
EndpointUnused ==
  /\ EndpointIdle
  /\ ep = "route"
  /\ configured = TRUE
  /\ authEnabled = FALSE
  /\ maxFileCount = MaxBatch

\* the store after maxRequests checks of key ip at time 0
LimiterExhausted(ip) ==
  /\ now = 0
  /\ ipStore = [EmptyStore EXCEPT ![ip] = [count |-> maxRequests, resetAt |-> windowMs]]
  /\ rateLimitMap = EmptyStore
  /\ lastCheck = None
  /\ opened = [k \in Keys |-> IF k = ip THEN 0 ELSE -1]
  /\ made = [k \in Keys |-> IF k = ip THEN maxRequests ELSE 0]
  /\ unswept = EmptyStore
  /\ lastUnswept = None
  /\ info = None

(***************************************************************************)
(* The bodies of the error responses.  An exception is its class, its      *)
(* message and its stack; a body is the object handed to JSON.stringify /  *)
(* NextResponse.json, its message kept as the parts of the template        *)
(* literal that built it.                                                  *)
(***************************************************************************)
ExceptionTexts == {"socket hang up", "connect ECONNREFUSED 10.0.0.7:5678"}

Stacks == {"at fetch", "at formData"}

Exception(class, message, stack) == [class |-> class, message |-> message, stack |-> stack]

\* `undefined`: JSON.stringify drops the property
Undefined == <<>>

\* String(error) of an Error: its name and its message
ErrorString(error) == <<error.class, ": ", error.message>>

\* route.ts, the catch of the configuration check
routeConfigErrorBody(configError) ==
  [ok |-> FALSE, error |-> Undefined,
   message |-> <<"Server configuration error: ", configError.message>>]

\* route.ts, the global error handler
routeErrorBody(error) ==
  [ok |-> FALSE,
   message |-> <<"Server error: ", error.message>>,
   error |-> IF nodeEnv = "development" THEN ErrorString(error) ELSE Undefined]

\* the catch of the handler with validateConfig, auth and checkRateLimit
uploadErrorBody(error) ==
  IF error.class = "ValidationError"
    THEN [ok |-> FALSE, error |-> <<"VALIDATION_FAILED">>, message |-> <<error.message>>]
  ELSE IF error.class = "N8nError"
    THEN [ok |-> FALSE, error |-> <<"WEBHOOK_FAILED">>, message |-> <<error.message>>]
  ELSE [ok |-> FALSE, error |-> <<"INTERNAL_ERROR">>, message |-> <<"An unexpected error occurred">>]

\* the messages of the errors the configuration checks throw
RouteConfigMessages ==
  {"Missing required environment variables: N8N_WEBHOOK_URL or N8N_HOOK_SECRET"}

ConfigMessages ==
  {"N8N_WEBHOOK_URL environment variable is required",
   "N8N_HOOK_SECRET environment variable is required",
   "AUTH_USERNAME and AUTH_PASSWORD required when AUTH_ENABLED=true"}

\* the exceptions a step can throw: rateLimit(req) and req.formData() reject
\* with whatever their callee threw, the configuration checks and the
\* forwarder with the errors they construct
ThrownAt(handler, step) ==
  CASE step = "config" /\ handler = "route" ->
         {Exception("Error", m, k) : m \in RouteConfigMessages, k \in Stacks}
    [] step = "config" /\ handler = "upload" ->
         {Exception("Error", m, k) : m \in ConfigMessages, k \in Stacks}
    [] step = "forward" ->
         {Exception("N8nError", m, k) : m \in ExceptionTexts, k \in Stacks}
    [] OTHER ->
         {Exception(c, m, k) : c \in {"Error", "TypeError"}, m \in ExceptionTexts, k \in Stacks}

ErrorsUnused ==
  /\ nodeEnv = "production"
  /\ failedAt = None
  /\ caught = <<>>
  /\ errorBody = <<>>

\* two requests to route.ts fail at the same step with exceptions of one class
RouteFails ==
  /\ failedAt = None
  /\ \E step \in {"rate-limit", "config", "parse"} :
       \E e1 \in ThrownAt("route", step), e2 \in ThrownAt("route", step) :
         /\ e1.class = e2.class
         /\ failedAt' = [handler |-> "route", step |-> step]
         /\ caught' = <<e1, e2>>
         /\ errorBody' = IF step = "config"
                           THEN <<routeConfigErrorBody(e1), routeConfigErrorBody(e2)>>
                           ELSE <<routeErrorBody(e1), routeErrorBody(e2)>>
  /\ UNCHANGED nodeEnv
  /\ UNCHANGED <<fvars, lvars, evars, pvars, vvars, svars>>

\* two requests to the other handler fail at the same step
UploadFails ==
  /\ failedAt = None
  /\ \E step \in {"config", "parse", "forward"} :
       \E e1 \in ThrownAt("upload", step), e2 \in ThrownAt("upload", step) :
         /\ e1.class = e2.class
         /\ failedAt' = [handler |-> "upload", step |-> step]
         /\ caught' = <<e1, e2>>
         /\ errorBody' = <<uploadErrorBody(e1), uploadErrorBody(e2)>>
  /\ UNCHANGED nodeEnv
  /\ UNCHANGED <<fvars, lvars, evars, pvars, vvars, svars>>

(***************************************************************************)
(* Spec: one forward call of either forwarder, for every configured        *)
(* retries value in -1..MaxRetries and every downstream behaviour.         *)
(***************************************************************************)
Init ==
  /\ PathsUnused
  /\ ValidatorsUnused
  /\ ErrorsUnused
  /\ ForwardIdle
  /\ retries \in -1 .. MaxRetries
  /\ LimiterUnused
  /\ EndpointUnused

Next ==
  \/ \E f \in {"multipart", "n8n"} : Call(f)
  \/ ForwardStep

Spec == Init /\ [][Next]_vars

(***************************************************************************)
(* SpecTimers: Spec with the timeout timers firing at any moment they are  *)
(* armed, and with downstreams that never end a response body.             *)
(***************************************************************************)
NextTimers ==
  \/ \E f \in {"multipart", "n8n"} : Call(f)
  \/ ForwardStep
  \/ \E n \in 0 .. MaxRetries : TimerFires(n)
  \/ BodyStalls

SpecTimers == Init /\ [][NextTimers]_vars

(***************************************************************************)
(* SpecLive: SpecTimers with the steps the event loop takes on its own:    *)
(* a loop test or an elapsed backoff resumes the call, and an armed timer  *)
(* fires.  When and whether a fetch settles or a body ends is left to the  *)
(* downstream.                                                             *)
(***************************************************************************)
Resume == MultipartLoop \/ N8nLoop \/ BackoffElapsed

SpecLive ==
  /\ Init
  /\ [][NextTimers]_vars
  /\ WF_vars(Resume)
  /\ \A n \in 0 .. MaxRetries : WF_vars(TimerFires(n))

(***************************************************************************)
(* SpecEndpoint: one inbound request to either upload handler, for every   *)
(* batch of at most MaxBatch files[] parts with names from InboundNames    *)
(* and sizes in Sizes, every configuration, and every downstream           *)
(* behaviour of the forwarder the handler calls.                           *)
(***************************************************************************)
MaxEndpointRetries == 1

InitEndpoint ==
  /\ PathsUnused
  /\ ValidatorsUnused
  /\ ErrorsUnused
  /\ ForwardIdle
  /\ retries \in 0 .. MaxEndpointRetries
  /\ EndpointIdle
  /\ ep \in {"route", "upload"}
  /\ configured \in BOOLEAN
  /\ limiter = "rate-limit"
  /\ maxRequests = 1
  /\ windowMs = 1
  /\ rlEnabled = TRUE
  \* route.ts reads neither authConfig, maxFiles nor the store of checkRateLimit
  /\ IF ep = "route"
       THEN authEnabled = FALSE /\ maxFileCount = 1 /\ LimiterFresh
       ELSE /\ authEnabled \in BOOLEAN
            /\ maxFileCount \in 1 .. MaxBatch
            /\ LimiterExhausted("ip1")

NextEndpoint ==
  \/ RouteBegin
  \/ RouteValidateFile
  \/ RouteForward
  \/ RouteReply
  \/ UploadBegin
  \/ UploadValidateFile
  \/ UploadForward
  \/ UploadReply
  \/ ForwardStep

SpecEndpoint == InitEndpoint /\ [][NextEndpoint]_vars

(***************************************************************************)
(* SpecLegacy: one inbound request to the earlier route.ts of part_008,    *)
(* which has neither the configuration check nor a try/catch.              *)
(***************************************************************************)
InitLegacy ==
  /\ PathsUnused
  /\ ValidatorsUnused
  /\ ErrorsUnused
  /\ ForwardIdle
  /\ retries \in 0 .. MaxEndpointRetries
  /\ EndpointIdle
  /\ ep = "legacy"
  /\ configured = TRUE
  /\ authEnabled = FALSE
  /\ maxFileCount = 1
  /\ LimiterFresh
  /\ limiter = "rate-limit"
  /\ maxRequests = 1
  /\ windowMs = 1
  /\ rlEnabled = TRUE

NextLegacy ==
  \/ LegacyBegin
  \/ LegacyValidateFile
  \/ LegacyForward
  \/ LegacyReply
  \/ MultipartLoop
  \/ \E o \in Outcomes : MultipartSettle(o)
  \/ BackoffElapsed

SpecLegacy == InitLegacy /\ [][NextLegacy]_vars

(***************************************************************************)
(* SpecLimiter: checks of either limiter, for every configured limit in    *)
(* 0..MaxLimit and window in 1..MaxWindow, interleaved with the passing of *)
(* time and with the periodic sweep.                                       *)
(***************************************************************************)
InitLimiter ==
  /\ PathsUnused
  /\ ValidatorsUnused
  /\ ErrorsUnused
  /\ ForwardIdle
  /\ retries = 0
  /\ LimiterFresh
  /\ limiter \in {"rate-limit", "security"}
  /\ maxRequests \in 0 .. MaxLimit
  /\ windowMs \in 1 .. MaxWindow
  /\ rlEnabled \in BOOLEAN
  /\ (limiter = "security" => rlEnabled)
  /\ EndpointUnused

NextLimiter ==
  \/ \E ip \in Keys : Check(ip)
  \/ \E ip \in Keys : SecurityCheck(ip)
  \/ Sweep
  \/ SecuritySweep
  \/ Tick

SpecLimiter == InitLimiter /\ [][NextLimiter]_vars

(***************************************************************************)
(* Vocabulary of the claims about a forward call.                          *)
(***************************************************************************)
Is2xx(o) == o.type = "response" /\ o.status >= 200 /\ o.status <= 299

Is4xx(o) == o.type = "response" /\ o.status >= 400 /\ o.status <= 499

Is5xx(o) == o.type = "response" /\ o.status >= 500 /\ o.status <= 599

IsTimeout(o) == o.type = "error" /\ o.name = "AbortError"

\* the three retryable ways an attempt can end: 5xx, timeout, network error
Retryable(o) == Is5xx(o) \/ o.type = "error"

Succeeded(r) == r # None /\ r.how = "return" /\ r.ok

\* the index of the last attempt that received a response (0: none did)
LastResponseAt(h) ==
  LET S == {i \in 1 .. Len(h) : h[i].type = "response"}
  IN IF S = {} THEN 0 ELSE CHOOSE i \in S : \A j \in S : j <= i

\* C1: for every maxRetries >= 0, one forward call issues at most
\* maxRetries + 1 outbound requests, and exactly maxRetries + 1 when every
\* attempt failed retryably (5xx, timeout or network error).
Claim_C1 ==
  retries >= 0 =>
    /\ requests <= retries + 1
    /\ (fpc = "done" /\ \A i \in 1 .. Len(history) : Retryable(history[i]))
         => requests = retries + 1

\* C2: an attempt that receives a 4xx response is the last one: the call
\* ends in failure there, no backoff is waited after it and no further
\* request is issued; against a downstream that always answers 400 exactly
\* one request is issued.
Claim_C2 ==
  /\ \A i \in 1 .. Len(history) :
        Is4xx(history[i]) =>
          /\ i = Len(history)
          /\ requests = i
          /\ fpc \notin {"fetch", "backoff"}
          /\ Len(delays) < i
          /\ fpc = "done" => ~Succeeded(result)
  /\ (retries >= 0 /\ fpc = "done" /\ \A i \in 1 .. Len(history) : history[i].status = 400)
       => requests = 1

\* C3: an attempt n < maxRetries that ends in a 5xx response, a timeout or
\* a network error does not end the call: a backoff delay is waited and
\* attempt n + 1 is issued.
Claim_C3 ==
  \A i \in 1 .. Len(history) :
     (Retryable(history[i]) /\ i - 1 < retries) =>
       /\ ~(fpc = "done" /\ Len(history) = i)
       /\ requests > i => Len(delays) >= i

\* C4: an attempt n (zero-indexed) that receives a 2xx response ends the
\* call at once with succeeded = true and attemptsUsed = n and no further
\* request; 500 then 200 gives succeeded = true, attemptsUsed = 1.
ForwardSuccessAtOnce ==
  /\ \A i \in 1 .. Len(history) :
        Is2xx(history[i]) =>
          /\ i = Len(history)
          /\ fpc = "done"
          /\ Succeeded(result)
          /\ result.retries = i - 1
          /\ requests = i
  /\ (/\ fpc = "done"
      /\ Len(history) = 2
      /\ history[1].status = 500
      /\ history[2].status = 200)
       => (Succeeded(result) /\ result.retries = 1 /\ requests = 2)

\* a call that was answered 500 and then 204 has returned
ForwardSuccessAtOnce_Witness ==
  /\ fpc = "done"
  /\ Len(history) = 2
  /\ history[1].status = 500
  /\ history[2].status = 204
  /\ Succeeded(result)

\* C5: a call that ends in failure reports the status of the last response
\* received from the downstream webhook and the index of the last attempt
\* made; a 4xx response with status s on attempt n is reported as (s, n).
Claim_C5 ==
  (fpc = "done" /\ ~Succeeded(result) /\ Len(history) >= 1) =>
    /\ result.retries = Len(history) - 1
    /\ LastResponseAt(history) > 0
         => result.status = history[LastResponseAt(history)].status
    /\ Is4xx(history[Len(history)])
         => result.status = history[Len(history)].status

(***************************************************************************)
(* SpecRetryAfter: checks of rate-limit.ts's limiter at instants around    *)
(* the whole seconds, for windows shorter and longer than a second.        *)
(***************************************************************************)
InitRetryAfter ==
  /\ PathsUnused
  /\ ValidatorsUnused
  /\ ErrorsUnused
  /\ ForwardIdle
  /\ retries = 0
  /\ LimiterFresh
  /\ limiter = "rate-limit"
  /\ maxRequests \in 0 .. MaxLimit
  /\ windowMs \in RetryWindows
  /\ rlEnabled = TRUE
  /\ EndpointUnused

NextRetryAfter ==
  \/ \E ip \in Keys : Check(ip)
  \/ Sweep
  \/ Advance

SpecRetryAfter == InitRetryAfter /\ [][NextRetryAfter]_vars

(***************************************************************************)
(* SpecPaths: each normalizer applied once to every path of at most        *)
(* MaxPathLen characters of PathChars and to the named paths.              *)
(***************************************************************************)
InitPaths ==
  /\ ForwardIdle
  /\ retries = 0
  /\ LimiterUnused
  /\ EndpointUnused
  /\ inputPath \in PathInputs
  /\ applied = NotApplied
  /\ ValidatorsUnused
  /\ ErrorsUnused

NextPaths ==
  \/ ApplySecuritySanitizePath
  \/ ApplyNormalizeRelPath
  \/ ApplySanitizePath

SpecPaths == InitPaths /\ [][NextPaths]_vars

(***************************************************************************)
(* SpecValidate: each batch validator called once on every batch of at     *)
(* most maxFileCount + 1 files of UploadFiles.                             *)
(***************************************************************************)
InitValidate ==
  /\ ForwardIdle
  /\ retries = 0
  /\ LimiterUnused
  /\ EndpointUnused
  /\ PathsUnused
  /\ files \in BatchesUpTo(MaxBatch + 1)
  /\ validation = NotValidated
  /\ ErrorsUnused

NextValidate ==
  \/ ValidateUpload
  \/ ValidateFiles

SpecValidate == InitValidate /\ [][NextValidate]_vars

(***************************************************************************)
(* SpecAbort: SpecEndpoint for a configured handler, with a browser that   *)
(* may abort the inbound request while the forward call is in progress.    *)
(***************************************************************************)
InitAbort ==
  /\ InitEndpoint
  /\ configured
  /\ ~authEnabled
  /\ retries = MaxEndpointRetries

NextAbort ==
  \/ RouteBegin
  \/ RouteValidateFile
  \/ RouteForward
  \/ RouteReply
  \/ UploadBegin
  \/ UploadValidateFile
  \/ UploadForward
  \/ UploadReply
  \/ ForwardStep
  \/ ClientAbort

SpecAbort == InitAbort /\ [][NextAbort]_vars

(***************************************************************************)
(* SpecSweep: SpecLimiter beside a run of the same limiter that is given   *)
(* the same checks and is never swept, with getRateLimitInfo calls.        *)
(***************************************************************************)
NextSweep ==
  \/ \E ip \in Keys : CheckBoth(ip)
  \/ \E ip \in Keys : Info(ip)
  \/ Sweep
  \/ SecuritySweep
  \/ Tick

SpecSweep == InitLimiter /\ [][NextSweep]_vars

(***************************************************************************)
(* SpecErrors: pairs of requests that fail at the same step of a handler   *)
(* with exceptions of one class, under either NODE_ENV.                    *)
(***************************************************************************)
InitErrors ==
  /\ PathsUnused
  /\ ValidatorsUnused
  /\ ForwardIdle
  /\ retries = 0
  /\ LimiterUnused
  /\ EndpointUnused
  /\ nodeEnv \in {"production", "development"}
  /\ failedAt = None
  /\ caught = <<>>
  /\ errorBody = <<>>

NextErrors ==
  \/ RouteFails
  \/ UploadFails

SpecErrors == InitErrors /\ [][NextErrors]_vars

(***************************************************************************)
(* The outcomes of the upload endpoints, told apart by the return          *)
(* statement that produced the response.                                   *)
(***************************************************************************)
RateLimited(r) ==
  r.status = 429 /\ (r.message = "Too many requests" \/ r.error = "RATE_LIMIT_EXCEEDED")

\* route.ts names the configuration error; the other handler reports the
\* exception of validateConfig() as its generic INTERNAL_ERROR
ConfigurationError(r) ==
  \/ r.message = "Server configuration error"
  \/ r.error = "INTERNAL_ERROR" /\ ~configured

ValidationFailure(r) ==
  /\ r.status = 400
  /\ \/ r.error = "VALIDATION_FAILED"
     \/ r.message \in {"No files[] found", "Disallowed type", "File too large",
                       "Total size exceeds limit"}

RECURSIVE SumSizes(_)
SumSizes(o) == IF o = <<>> THEN 0 ELSE Head(o).size + SumSizes(Tail(o))

\* the checks every forwarded file has to have passed
PassedEveryCheck(f) ==
  /\ extOf(f.filename) \in allowedExts
  /\ f.size <= maxFileSize

\* C6: a rate-limited, configuration-error or validation-failure response
\* means that no outbound request was issued and the forwarder was never
\* called during the request; and whenever the forwarder has been called,
\* every files[] part of the batch was examined and appended to the outbound
\* body, each with an allowed extension and a size within the per-file limit,
\* and their total is within the total limit.
NoForwardBeforeValidation ==
  /\ (response # None /\ (RateLimited(response) \/ ConfigurationError(response)
                          \/ ValidationFailure(response)))
       => (requests = 0 /\ callee = "none" /\ history = <<>>)
  /\ callee # "none" =>
       /\ nfiles >= 1
       /\ count = nfiles
       /\ Len(out) = nfiles
       /\ \A i \in 1 .. Len(out) : PassedEveryCheck(out[i])
       /\ totalBytes = SumSizes(out)
       /\ totalBytes <= maxTotalSize

\* a batch whose first file passed and whose second file was refused
NoForwardBeforeValidation_Witness ==
  /\ response # None
  /\ ValidationFailure(response)
  /\ nfiles = 2
  /\ Len(out) = 1
  /\ requests = 0

\* C7: a batch with a files[] part whose filename has a ".." segment is
\* answered with a validation failure, and no outbound request is issued
\* for it.
Claim_C7 ==
  sawDotDot =>
    /\ requests = 0
    /\ response # None => ValidationFailure(response)

IsRelativePath(f) ==
  /\ f # <<>>
  /\ Head(f) # "/"
  /\ ~HasSegment(f, <<".", ".">>)
  /\ ~HasSegment(f, <<".">>)

\* C8: every filename of the outbound body handed to the forwarder is a
\* non-empty relative path: no leading slash, no ".." and no "." segment.
Claim_C8 ==
  callee # "none" => \A i \in 1 .. Len(out) : IsRelativePath(out[i].filename)

\* C9: with the limiter enabled and maxRequests = M >= 1, the
\* first M checks of a key inside one window are allowed and every later
\* check inside it is denied; a check made after more than windowMs have
\* elapsed since the window was opened is allowed and sets the count to 1.
RateLimitWindow ==
  (lastCheck # None /\ maxRequests >= 1 /\ LimiterOn) =>
    /\ lastCheck.nth <= maxRequests => lastCheck.ok
    /\ lastCheck.nth > maxRequests => ~lastCheck.ok
    /\ lastCheck.elapsed > windowMs => (lastCheck.ok /\ lastCheck.post.count = 1)

\* the check after the M allowed ones of a window of M = 2 was denied
RateLimitWindow_Witness ==
  /\ lastCheck # None
  /\ LimiterOn
  /\ maxRequests = 2
  /\ lastCheck.nth = 3
  /\ lastCheck.elapsed >= 0
  /\ lastCheck.elapsed <= windowMs
  /\ ~lastCheck.ok

\* C9 (original): ... any check made once windowMs have elapsed since the
\* window was opened (now - windowStart >= windowMs) is allowed and sets
\* the key's count to 1.
Claim_C9 ==
  (lastCheck # None /\ maxRequests >= 1 /\ LimiterOn) =>
    /\ (lastCheck.nth <= maxRequests /\ lastCheck.elapsed < windowMs) => lastCheck.ok
    /\ (lastCheck.nth = maxRequests + 1 /\ lastCheck.elapsed < windowMs) => ~lastCheck.ok
    /\ lastCheck.elapsed >= windowMs => (lastCheck.ok /\ lastCheck.post.count = 1)

\* C10: with the limiter enabled, a check of a key that has no
\* record, or whose record has now > windowResetAt, is allowed and leaves
\* the fresh record {count = 1, windowResetAt = now + windowDuration},
\* whatever the old count was.
FreshRecordOnExpiry ==
  (/\ lastCheck # None
   /\ LimiterOn
   /\ (lastCheck.pre = None \/ lastCheck.at > lastCheck.pre.resetAt)) =>
    /\ lastCheck.ok
    /\ lastCheck.post = [count |-> 1, resetAt |-> lastCheck.at + windowMs]

\* a full window (count = maxRequests = 2) was replaced after it expired
FreshRecordOnExpiry_Witness ==
  /\ lastCheck # None
  /\ LimiterOn
  /\ maxRequests = 2
  /\ lastCheck.pre # None
  /\ lastCheck.pre.count = 2
  /\ lastCheck.at > lastCheck.pre.resetAt
  /\ lastCheck.ok
  /\ lastCheck.post.count = 1

\* C10 (original): ... or now >= windowResetAt, including the instant
\* now = windowResetAt ...
Claim_C10 ==
  (/\ lastCheck # None
   /\ LimiterOn
   /\ (lastCheck.pre = None \/ lastCheck.at >= lastCheck.pre.resetAt)) =>
    /\ lastCheck.ok
    /\ lastCheck.post = [count |-> 1, resetAt |-> lastCheck.at + windowMs]

\* time left in the window of the record a denied check found
TimeLeft == lastCheck.pre.resetAt - lastCheck.at

\* C11: whenever a check is denied, the record is left as it was and the
\* retry-after it reports is the least number of seconds s with
\* s * 1000 >= windowResetAt - now; it is at least 1 while the window has
\* time left, 0 at the instant now = windowResetAt, and never more than
\* ceil(windowMs / 1000).
RetryAfterSeconds ==
  (lastCheck # None /\ ~lastCheck.ok) =>
    /\ lastCheck.pre # None
    /\ lastCheck.post = lastCheck.pre
    /\ TimeLeft >= 0
    /\ lastCheck.retryAfter * 1000 >= TimeLeft
    /\ (lastCheck.retryAfter - 1) * 1000 < TimeLeft
    /\ TimeLeft > 0 => lastCheck.retryAfter >= 1
    /\ (lastCheck.retryAfter - 1) * 1000 < windowMs

\* a denial 2500 ms before the reset reports 3 seconds
RetryAfterSeconds_Witness ==
  /\ lastCheck # None
  /\ ~lastCheck.ok
  /\ TimeLeft = 2500
  /\ lastCheck.retryAfter = 3

\* C11 as stated: the retry-after of every denial is ceil((windowResetAt -
\* now) / 1000), at least 1 and at most ceil(windowMs / 1000).
Claim_C11 ==
  (lastCheck # None /\ ~lastCheck.ok) =>
    /\ lastCheck.retryAfter * 1000 >= TimeLeft
    /\ (lastCheck.retryAfter - 1) * 1000 < TimeLeft
    /\ lastCheck.retryAfter >= 1
    /\ (lastCheck.retryAfter - 1) * 1000 < windowMs

\* route.ts: `await rateLimit(req)` rejected, so the limiter gave no verdict
RateLimitCheckThrew ==
  ep = "route" /\ response.message = "Server error" /\ ~parsed

\* C12: the rate-limit check comes first and the configuration check second,
\* both before the body is parsed: a request the limiter denies is answered
\* with the rate-limited outcome whatever the configuration is, a request
\* the limiter lets through while the webhook URL or secret is missing is
\* answered with the configuration-error outcome, and in neither case has
\* req.formData() been called.
Claim_C12 ==
  (response # None /\ ~RateLimitCheckThrew) =>
    /\ overLimit => RateLimited(response)
    /\ (~overLimit /\ ~configured) => ConfigurationError(response)
    /\ (overLimit \/ ~configured) => ~parsed

\* the forward call of the request ended in failure
ForwardFailed == callee # "none" /\ fpc = "done" /\ ~Succeeded(result)

\* C13: whenever the forwarder ends in failure the endpoint's response has
\* status 502, and its body carries the downstream status and the attempt
\* count the forwarder reported.
Claim_C13 ==
  (response # None /\ ForwardFailed) =>
    /\ response.status = 502
    /\ response.n8nStatus = result.status
    /\ response.retries = result.retries

\* C14: every response to a request the limiter denied has status 429 and a
\* Retry-After header, whose value is the retry-after seconds the limiter
\* reported for the key (known for checkRateLimit of rate-limit.ts).
Claim_C14 ==
  (response # None /\ RateLimited(response)) =>
    /\ response.status = 429
    /\ response.retryAfter >= 0
    /\ ep = "upload" => (/\ lastCheck # None
                         /\ ~lastCheck.ok
                         /\ response.retryAfter = lastCheck.retryAfter)

\* C15: when an unexpected exception is thrown at a step of the handler (the
\* rate-limit check, the configuration read, the parsing of the body), the
\* request ends with one structured JSON response {ok: false, ...} of
\* status 500; the exception does not escape the handler.
Claim_C15 ==
  (response # None /\ threw # "none") =>
    /\ response.status = 500
    /\ response.structured
    /\ ~response.ok

(* The header names of one outbound request, as the receiver compares them:
   the model keeps every name in the lower case the code writes it in. *)
ContentTypeNames == {"content-type", "Content-Type", "CONTENT-TYPE"}

(* C16: on every attempt of every forward call the sender sets no
   Content-Type header, under any letter case. *)
Claim_C16 ==
  requests > 0 => headers \cap ContentTypeNames = {}

RequiredHeaders ==
  {"x-hook-secret", "x-client-id", "x-file-total-count", "x-file-total-bytes",
   "x-batch-id", "x-meta-sha256"}

(* C17: every outbound request an upload endpoint sends carries all six
   headers, whether or not the batch had a meta part. *)
Claim_C17 ==
  (epc # "idle" /\ requests > 0) => RequiredHeaders \subseteq headers

DotDot == <<".", ".">>

WasApplied == applied.fn # "none"

(* C18: a path with a ".." segment makes each of the three normalizers
   fail with an error; none of them returns a string for it. *)
Claim_C18 ==
  (WasApplied /\ HasSegment(inputPath, DotDot)) => applied.threw

\* a relative path already in canonical form: not empty, forward slashes only,
\* no leading, trailing or doubled slash, no "." or ".." segment, allowed
\* characters only, no surrounding blanks
Canonical(s) ==
  /\ OnlyAllowedPathChars(s)
  /\ Head(s) # "/" /\ s[Len(s)] # "/"
  /\ Head(s) # " " /\ s[Len(s)] # " "
  /\ ~Includes(s, <<"/", "/">>)
  /\ ~HasSegment(s, DotDot)
  /\ ~HasSegment(s, <<".">>)

\* ".." occurs in s, and only between other characters of a segment
InteriorDotDot(s) ==
  /\ Includes(s, DotDot)
  /\ \A i \in 1 .. Len(s) :
       HasAt(s, i, DotDot) =>
         /\ i > 1 /\ s[i - 1] \notin {"/", "."}
         /\ i + 2 <= Len(s) /\ s[i + 2] \notin {"/", "."}

(* C19: a canonical path whose only ".." are interior characters of a
   segment (a..b.jpg, dir/a..b.jpg) is returned unchanged by each normalizer. *)
Claim_C19 ==
  (WasApplied /\ Canonical(inputPath) /\ InteriorDotDot(inputPath)) =>
     /\ ~applied.threw
     /\ applied.value = inputPath

\* the non-empty "/"-separated segments of s, in order
RECURSIVE Segments(_)
Segments(s) ==
  IF s = <<>> THEN <<>>
  ELSE IF Head(s) = "/" THEN Segments(Tail(s))
  ELSE LET S == {i \in 1 .. Len(s) : s[i] = "/"}
           e == IF S = {} THEN Len(s) + 1 ELSE CHOOSE i \in S : \A j \in S : i <= j
       IN <<SubSeq(s, 1, e - 1)>> \o Segments(SubSeq(s, e, Len(s)))

\* a is b with some elements left out
RECURSIVE IsSubsequence(_, _)
IsSubsequence(a, b) ==
  IF a = <<>> THEN TRUE
  ELSE IF b = <<>> THEN FALSE
  ELSE IF Head(a) = Head(b) THEN IsSubsequence(Tail(a), Tail(b))
  ELSE IsSubsequence(a, Tail(b))

(* C20: whatever a normalizer returns has no backslash, no leading slash,
   no trailing slash and no doubled slash, and keeps the segments of the
   input in their order; a//b///c comes back as a/b/c. *)
Claim_C20 ==
  (WasApplied /\ ~applied.threw) =>
     /\ ~Includes(applied.value, <<"\\">>)
     /\ applied.value # <<>> =>
          (Head(applied.value) # "/" /\ applied.value[Len(applied.value)] # "/")
     /\ ~Includes(applied.value, <<"/", "/">>)
     /\ IsSubsequence(Segments(applied.value), Segments(BackslashesToSlashes(inputPath)))
     /\ inputPath = <<"a", "/", "/", "b", "/", "/", "/", "c">> =>
          applied.value = <<"a", "/", "b", "/", "c">>

\* the normalizer named fn called on p
Normalize(fn, p) ==
  CASE fn = "security.sanitizePath" -> securitySanitizePath(p)
    [] fn = "normalizeRelPath"      -> Returned(normalizeRelPath(p))
    [] OTHER                        -> Returned(sanitizePath(p))

(* C21: each normalizer returns a canonical path as it is, and what a
   normalizer returns it returns again when called on it (idempotence). *)
Claim_C21 ==
  WasApplied =>
     /\ Canonical(inputPath) => (~applied.threw /\ applied.value = inputPath)
     /\ ~applied.threw => Normalize(applied.fn, applied.value) = Returned(applied.value)

\* the elements of a sequence
Range(s) == {s[i] : i \in 1 .. Len(s)}

BatchRules == {"empty", "count", "total"}

FileRules == {"size", "extension", "mime", "traversal"}

\* whether the batch fs breaks a batch rule of the server's validator
BatchBreaks(fs, rule) ==
  CASE rule = "empty" -> Len(fs) = 0
    [] rule = "count" -> Len(fs) > maxFileCount
    [] OTHER          -> TotalSize(fs) > maxTotalSize

\* whether the file f breaks a per-file rule of the server's validator
FileBreaks(f, rule) ==
  CASE rule = "size"      -> f.size > maxFileSize
    [] rule = "extension" -> getFileExtension(f.relativePath) \notin allowedExtensions
    [] rule = "mime"      -> f.type \notin allowedMimeTypes
    [] OTHER              -> Includes(f.relativePath, <<".", ".">>)

FileViolations(fs) ==
  {<<i, rule>> \in (1 .. Len(fs)) \X FileRules : FileBreaks(fs[i], rule)}

(* C22: validateUpload reports, for the whole batch and without stopping at
   the first finding, one error per broken batch rule and one error per
   broken rule of each file, naming that file; valid is exactly "no error",
   whatever the warnings are. *)
ValidateUploadReportsAll ==
  validation.by = "validateUpload" =>
     /\ \A rule \in BatchRules :
          BatchBreaks(files, rule) <=> Message(rule, <<>>) \in Range(validation.errors)
     /\ \A v \in FileViolations(files) :
          Message(v[2], files[v[1]].relativePath) \in Range(validation.errors)
     /\ \A e \in Range(validation.errors) :
          e.rule \in FileRules =>
            \E v \in FileViolations(files) :
               v[2] = e.rule /\ files[v[1]].relativePath = e.path
     /\ Len(validation.errors) =
          Cardinality({rule \in BatchRules : BatchBreaks(files, rule)})
            + Cardinality(FileViolations(files))
     /\ validation.valid <=> validation.errors = <<>>
     /\ validation.valid <=>
          (FileViolations(files) = {} /\ \A rule \in BatchRules : ~BatchBreaks(files, rule))

ValidateUploadReportsAll_Witness ==
  /\ validation.by = "validateUpload"
  /\ Len(files) = 2
  /\ FileBreaks(files[1], "size") /\ FileBreaks(files[1], "extension")
  /\ \A rule \in FileRules : ~FileBreaks(files[2], rule)
  /\ BatchBreaks(files, "total")
  /\ Len(validation.errors) = 3
  /\ ~validation.valid

HasDuplicatePath(fs) ==
  \E i, j \in 1 .. Len(fs) : i < j /\ fs[i].relativePath = fs[j].relativePath

HasEmptyFile(fs) == \E i \in 1 .. Len(fs) : fs[i].size = 0

RulesReported(msgs) == {m.rule : m \in Range(msgs)}

(* C26: in both batch validators a repeated relative path and a zero-byte
   file each give a warning and never an error, so a batch with no other
   irregularity comes back valid with a non-empty warning list. *)
Claim_C26 ==
  validation.by # "none" =>
     /\ RulesReported(validation.errors) \cap {"duplicate", "empty-file"} = {}
     /\ HasDuplicatePath(files) => "duplicate" \in RulesReported(validation.warnings)
     /\ HasEmptyFile(files) => "empty-file" \in RulesReported(validation.warnings)
     /\ (validation.errors = <<>> /\ (HasDuplicatePath(files) \/ HasEmptyFile(files))) =>
          (validation.valid /\ validation.warnings # <<>>)

\* the inline checks of the deployed handler on one examined part, the
\* running total aside
InlineAccepts(f) ==
  /\ f.size <= maxFileSize
  /\ IF ep = "upload"
       THEN getFileExtension(sanitizePath(f.name)) \in allowedExtensions
       ELSE extOf(normalizeRelPath(f.name)) \in allowedExts

\* the examined parts as the UploadFile[] handed to validateUpload
InboundBatch ==
  [i \in 1 .. Len(inbound) |->
     [relativePath |-> inbound[i].name, size |-> inbound[i].size, type |-> "image/jpeg"]]

NamesTotalSize(r) ==
  r.message \in {"Total size exceeds limit", "Total upload size exceeds limit"}

OtherwiseValid == inbound # <<>> /\ \A i \in 1 .. Len(inbound) : InlineAccepts(inbound[i])

(* C24: a batch of otherwise valid files whose sizes add up to exactly
   maxTotalSize passes the handler's inline checks and validateUpload; one
   whose sizes add up to maxTotalSize + 1 is rejected by both with an error
   that names the total size, and nothing is sent downstream. *)
TotalSizeBoundary ==
  LET total == SumSizes(inbound)
      v == validateUpload(InboundBatch)
      othersPass == RulesReported(v.errors) \subseteq {"total"}
  IN /\ (OtherwiseValid /\ Len(inbound) = nfiles /\ total = maxTotalSize) =>
          /\ response # None => ~ValidationFailure(response)
          /\ Len(out) = Len(inbound) /\ totalBytes = maxTotalSize
          /\ othersPass => v.valid
     /\ (OtherwiseValid /\ total = maxTotalSize + 1) =>
          /\ response # None /\ ValidationFailure(response) /\ NamesTotalSize(response)
          /\ requests = 0
          /\ othersPass => (~v.valid /\ "total" \in RulesReported(v.errors))

TotalSizeBoundary_Witness ==
  /\ ep = "upload"
  /\ OtherwiseValid
  /\ SumSizes(inbound) = maxTotalSize
  /\ RulesReported(validateUpload(InboundBatch).errors) = {}
  /\ response # None /\ response.ok /\ response.totalBytes = maxTotalSize

\* the rules of the handler's inline checks that the examined parts break
InlineViolations ==
  {"extension" : i \in {j \in 1 .. Len(inbound) :
       IF ep = "upload"
         THEN getFileExtension(sanitizePath(inbound[j].name)) \notin allowedExtensions
         ELSE extOf(normalizeRelPath(inbound[j].name)) \notin allowedExts}}
  \cup {"size" : i \in {j \in 1 .. Len(inbound) : inbound[j].size > maxFileSize}}
  \cup (IF SumSizes(inbound) > maxTotalSize THEN {"total"} ELSE {})

\* the rules a validation-failure response names
ReportedRules(r) ==
  CASE r.message \in {"Disallowed type", "disallowed extension"} -> {"extension"}
    [] r.message \in {"File too large", "exceeds max size"} -> {"size"}
    [] NamesTotalSize(r) -> {"total"}
    [] OTHER -> {}

(* C23: a validation-failure response of the upload endpoint reports every
   rule the inbound batch breaks, not only the first one met. *)
Claim_C23 ==
  (response # None /\ ValidationFailure(response)) =>
     InlineViolations \subseteq ReportedRules(response)

(* C25: a batch is handed to the forwarder only if it has at least one and
   at most maxFileCount files; no outbound request is issued for an empty
   batch or for one of maxFileCount + 1 files. *)
Claim_C25 ==
  (epc = "forwarding" \/ requests > 0) =>
     (1 <= nfiles /\ nfiles <= maxFileCount /\ Len(out) <= maxFileCount)

\* the examined parts are valid files under canonical relative paths
ValidCanonicalParts ==
  /\ inbound # <<>>
  /\ \A i \in 1 .. Len(inbound) :
       /\ Canonical(inbound[i].name)
       /\ extOf(inbound[i].name) \in allowedExts
       /\ inbound[i].size <= maxFileSize
  /\ SumSizes(inbound) <= maxTotalSize

(* C27: for a valid batch whose filenames are canonical relative paths the
   outbound body has one files[] part per inbound file, in the inbound
   order and under the unmodified filename, and the success response
   reports that number of files. *)
Claim_C27 ==
  ValidCanonicalParts =>
     /\ Len(out) = Len(inbound)
     /\ \A i \in 1 .. Len(inbound) :
          out[i].filename = inbound[i].name /\ out[i].size = inbound[i].size
     /\ (response # None /\ response.ok) =>
          (Len(out) = nfiles /\ response.fileCount = nfiles)

(* C28: on every request that reaches the forwarder x-file-total-count is
   the number of files[] parts of the outbound body and x-file-total-bytes
   the sum of their sizes, and they are the count and the total that
   validation held against maxFileCount and maxTotalSize. *)
Claim_C28 ==
  (epc # "idle" /\ requests > 0) =>
     /\ headerValues.count = Len(out)
     /\ headerValues.bytes = SumSizes(out)
     /\ headerValues.count <= maxFileCount
     /\ headerValues.bytes <= maxTotalSize

(* C29: once the client has aborted the inbound request during a forward
   call, that call issues no further attempt and waits no further backoff. *)
Claim_C29 ==
  [][clientAborted => (requests' = requests /\ delays' = delays)]_vars

(* C30: the endpoint reports success only when the last attempt delivered
   the batch and was answered 2xx, and whenever it reports failure the
   downstream webhook took in the batch in no attempt, timed-out attempts
   included. *)
Claim_C30 ==
  (response # None /\ epc = "responded" /\ requests > 0) =>
     /\ response.ok => (accepted /\ Is2xx(history[Len(history)]))
     /\ ~response.ok => ~accepted

\* the backoff table the delays are held against
ClaimedTable == <<500, 1500>>

(* C31: the delay waited after failed attempt n is the table's entry n, and
   its last entry for every n at or beyond the table's length: 500 ms after
   attempt 0 and 1500 ms after every later attempt. *)
BackoffTable ==
  /\ \A i \in 1 .. Len(delays) :
       delays[i] = ClaimedTable[IF i <= Len(ClaimedTable) THEN i ELSE Len(ClaimedTable)]
  /\ Len(delays) <= requests

BackoffTable_Witness ==
  /\ fpc = "done"
  /\ requests = 3
  /\ delays = <<500, 1500, 1500>>

\* the values of the secrets of the configuration
SecretValues == {"N8N_HOOK_SECRET=hunter2", "AUTH_PASSWORD=hunter2"}

\* the strings a body is made of
BodyStrings(b) ==
  {b.message[i] : i \in 1 .. Len(b.message)} \cup {b.error[i] : i \in 1 .. Len(b.error)}

(* C32: in production mode, two requests that fail at the same step with
   exceptions differing only in message or stack get identical error bodies,
   and the body of a configuration error holds no secret value. *)
Claim_C32 ==
  (failedAt # None /\ nodeEnv = "production") =>
     /\ errorBody[1] = errorBody[2]
     /\ failedAt.step = "config" =>
          \A i \in 1 .. 2 : BodyStrings(errorBody[i]) \cap SecretValues = {}

\* the map of the limiter in use
Store == IF limiter = "rate-limit" THEN ipStore ELSE rateLimitMap

\* a step that changes the map and is no check: a sweep
SweepStep == Store' # Store /\ lastCheck' = lastCheck

(* C33: the answers of the checks (allowed or denied, with the seconds to
   retry after) are those of a run given the same checks and never swept, and
   a sweep deletes exactly the records whose resetAt has passed and changes
   no other record. *)
SweepNotNeeded ==
  /\ [](lastUnswept # None =>
          /\ lastCheck.ok = lastUnswept.ok
          /\ lastCheck.retryAfter = lastUnswept.retryAfter)
  /\ [][SweepStep =>
          \A k \in Keys :
            Store'[k] = IF Store[k] # None /\ now > Store[k].resetAt THEN None
                        ELSE Store[k]]_vars

\* a check of a key whose record a sweep had deleted, beside a live record
SweepNotNeeded_Witness ==
  /\ rlEnabled
  /\ lastUnswept # None
  /\ lastCheck.pre = None
  /\ lastCheck.elapsed >= 0
  /\ \E k \in Keys : k # lastCheck.key /\ Store[k] # None /\ lastCheck.at <= Store[k].resetAt

(* C34: a backoff is waited only when a further attempt follows: when the last
   attempt (the one numbered retries) fails retryably the call ends without
   a delay, so it has waited fewer delays than it issued requests. *)
Claim_C34 ==
  /\ fpc = "backoff" => attempt < retries
  /\ (fpc = "done" /\ requests > 0) => Len(delays) < requests

\* the attempts issued and not yet ended
InFlight == requests - Len(history)

(* C35: a forward call has at most one outbound attempt in flight; an attempt
   is issued only when every earlier attempt has ended and no backoff is
   pending; and the timer of an attempt that fires while another attempt is
   in flight leaves that attempt in flight. *)
OneAttemptInFlight ==
  /\ [](InFlight \in {0, 1})
  /\ [][requests' > requests => (InFlight = 0 /\ fpc = "loop")]_vars
  /\ [][\A n \in timers \ timers' :
          (fpc = "fetch" /\ attempt # n) => (fpc' = "fetch" /\ history' = history)]_vars

\* forwardToN8n's second attempt in flight after the timer of the first, left
\* armed by the catch block, has fired
OneAttemptInFlight_Witness ==
  /\ callee = "n8n"
  /\ fpc = "fetch"
  /\ attempt = 1
  /\ history[1].name = "FetchError"
  /\ timers = {1}

(* C36: for every key and every maxRequests >= 0, however checks and sweeps
   interleave, an allowed check is at most the maxRequests-th check of its
   key in the window, and no stored count exceeds maxRequests. *)
Claim_C36 ==
  LimiterOn =>
    /\ \A k \in Keys : Store[k] # None => Store[k].count <= maxRequests
    /\ (lastCheck # None /\ lastCheck.ok) => lastCheck.nth <= maxRequests

\* a step in which a check was made, and one in which getRateLimitInfo was called
CheckStep == lastCheck' # lastCheck

InfoStep == info' # info

(* C37: a denied check leaves the whole map as it was; a check of a key,
   whatever its answer, leaves the record of every other key as it was; and
   a call of getRateLimitInfo leaves the whole map as it was. *)
CheckFrame ==
  [][/\ (CheckStep /\ ~lastCheck'.ok) => Store' = Store
     /\ CheckStep => \A k \in Keys \ {lastCheck'.key} : Store'[k] = Store[k]
     /\ InfoStep => Store' = Store]_vars

\* a check of one key was denied while the other key has a record, and
\* getRateLimitInfo has been called since for the denied key
CheckFrame_Witness ==
  /\ lastCheck # None
  /\ ~lastCheck.ok
  /\ \E k \in Keys \ {lastCheck.key} : Store[k] # None
  /\ info # None
  /\ info.key = lastCheck.key
  /\ info.at >= lastCheck.at
  /\ info.value.remaining = 0

(* C38: for every configured retries value, a forward call that has ended
   issued at least one outbound request, and the attempt count it reports is
   the number of requests it issued minus one. *)
Claim_C38 ==
  fpc = "done" =>
    /\ requests >= 1
    /\ result.retries = requests - 1

\* the call has ended: Success, PermanentFailure or Exhausted
Ended == fpc = "done"

(* C39: every forward call that is begun ends, whatever the downstream does
   (it responds, it fails, it never responds), for every retries value. *)
Claim_C39 == (callee # "none") ~> Ended

====
